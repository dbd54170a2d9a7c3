----------------------------- MODULE PkgStatus -----------------------------
(* enum pkgstatus of lib/dpkg/dpkg-db.h; the code compares its members.    *)
EXTENDS Naturals

NOTINSTALLED    == 0
CONFIGFILES     == 1
HALFINSTALLED   == 2
UNPACKED        == 3
HALFCONFIGURED  == 4
TRIGGERSAWAITED == 5
TRIGGERSPENDING == 6
INSTALLED       == 7

Status == NOTINSTALLED .. INSTALLED

=============================================================================
