------------------------------ MODULE Versions ------------------------------
(***************************************************************************)
(* Version numbers (lib/dpkg/version.c, parsehelp.c, the questions of      *)
(* lib/dpkg/depcon.c and dpkg --compare-versions, src/main/enquiry.c):     *)
(* parsing, writing, comparing, and whether a provided version answers a   *)
(* relation.  The functions are pure; a behaviour is one question, chosen  *)
(* at the start, and its answer.                                           *)
(*                                                                         *)
(* A string is a sequence of one-character strings.                        *)
(***************************************************************************)
EXTENDS Integers, Sequences, FiniteSets, FiniteSetsExt

CONSTANTS
    Characters,     \* characters of the parts of a version
    MaxPart,        \* length of a part
    Texts,          \* strings to be parsed
    INT_MAX         \* the greatest epoch

VARIABLES
    question,       \* what is asked
    answer          \* what the code says

versionvars == <<question, answer>>

Digits == [d \in {"0", "1", "2", "3", "4", "5", "6", "7", "8", "9"} |->
             CASE d = "0" -> 0 [] d = "1" -> 1 [] d = "2" -> 2 [] d = "3" -> 3
               [] d = "4" -> 4 [] d = "5" -> 5 [] d = "6" -> 6 [] d = "7" -> 7
               [] d = "8" -> 8 [] d = "9" -> 9]
ASCII == [c \in {"a", "b", "+", "-", ".", ":", "~", " ", "_"} |->
             CASE c = "a" -> 97 [] c = "b" -> 98 [] c = "+" -> 43 [] c = "-" -> 45
               [] c = "." -> 46 [] c = ":" -> 58 [] c = "~" -> 126 [] c = " " -> 32
               [] c = "_" -> 95]
Alpha == {"a", "b"}

\* What the next character is; the end of a string is none of these.
AtDigit(s) == s # <<>> /\ Head(s) \in DOMAIN Digits
AtOther(s) == s # <<>> /\ Head(s) \notin DOMAIN Digits

\* The length of the longest beginning of s of characters in C.
Span(s, C) == Max({n \in 0..Len(s) : \A i \in 1..n : s[i] \in C})
Rest(s, n) == SubSeq(s, n + 1, Len(s))

-----------------------------------------------------------------------------
(* version.c *)

order(s) ==
    CASE s = <<>> \/ AtDigit(s) -> 0
      [] AtOther(s) /\ Head(s) \in Alpha -> ASCII[Head(s)]
      [] AtOther(s) /\ Head(s) = "~" -> -1
      [] OTHER -> ASCII[Head(s)] + 256

RECURSIVE verrevcmp(_, _), compare_nondigits(_, _), compare_digits(_, _, _)

compare_nondigits(a, b) ==
    IF AtOther(a) \/ AtOther(b)
      THEN IF order(a) # order(b) THEN order(a) - order(b)
           ELSE compare_nondigits(Tail(a), Tail(b))
      ELSE compare_digits(Rest(a, Span(a, {"0"})), Rest(b, Span(b, {"0"})), 0)

\* Leading zeros are gone: the longer number is the larger one, and of two of
\* the same length the first difference counts.
compare_digits_fault(a, b, first_diff) ==
    CASE AtDigit(a) /\ AtDigit(b) ->
           compare_digits(Tail(a), Tail(b), Digits[Head(a)] - Digits[Head(b)])
      [] AtDigit(a) /\ ~AtDigit(b) -> 1
      [] ~AtDigit(a) /\ AtDigit(b) -> -1
      [] OTHER -> IF first_diff # 0 THEN first_diff ELSE verrevcmp(a, b)

compare_digits(a, b, first_diff) ==
    CASE AtDigit(a) /\ AtDigit(b) ->
           compare_digits(Tail(a), Tail(b),
                          IF first_diff # 0 THEN first_diff
                          ELSE Digits[Head(a)] - Digits[Head(b)])
      [] AtDigit(a) /\ ~AtDigit(b) -> 1
      [] ~AtDigit(a) /\ AtDigit(b) -> -1
      [] OTHER -> IF first_diff # 0 THEN first_diff ELSE verrevcmp(a, b)

verrevcmp(a, b) == IF a = <<>> /\ b = <<>> THEN 0 ELSE compare_nondigits(a, b)

dpkg_version_compare(a, b) ==
    CASE a.epoch > b.epoch -> 1
      [] a.epoch < b.epoch -> -1
      [] OTHER -> IF verrevcmp(a.version, b.version) # 0
                    THEN verrevcmp(a.version, b.version)
                    ELSE verrevcmp(a.revision, b.revision)

dpkg_version_relate(a, rel, b) ==
    LET rc == dpkg_version_compare(a, b)
    IN CASE rel = "none" -> TRUE
         [] rel = "eq" -> rc = 0
         [] rel = "lt" -> rc < 0
         [] rel = "le" -> rc <= 0
         [] rel = "gt" -> rc > 0
         [] rel = "ge" -> rc >= 0

dpkg_version_blank == [epoch |-> 0, version |-> <<>>, revision |-> <<>>]
dpkg_version_is_informative(v) == v # dpkg_version_blank

-----------------------------------------------------------------------------
(* parsehelp.c *)

\* The epoch: strtol() takes a sign and digits up to the colon.
Epoch(s) ==
    LET sign == IF s # <<>> /\ Head(s) \in {"+", "-"} THEN 1 ELSE 0
        n == Span(Rest(s, sign), DOMAIN Digits)
        value[i \in 0..n] == IF i = 0 THEN 0 ELSE 10 * value[i - 1] + Digits[s[sign + i]]
    IN [len |-> IF n = 0 THEN 0 ELSE sign + n,
        value |-> IF sign = 1 /\ Head(s) = "-" THEN 0 - value[n] ELSE value[n]]

Positions(s, c) == {i \in DOMAIN s : s[i] = c}
NotBlank == (DOMAIN Digits \cup DOMAIN ASCII) \ {" "}

Bad == [bad |-> TRUE, warn |-> FALSE, v |-> dpkg_version_blank]

\* After the epoch: the last hyphen begins the revision.
parse_parts(epoch, s) ==
    LET h == IF Positions(s, "-") = {} THEN Len(s) + 1 ELSE Max(Positions(s, "-"))
        version == SubSeq(s, 1, h - 1)
        revision == Rest(s, h)
    IN IF (Positions(s, "-") # {} /\ revision = <<>>) \/ version = <<>> THEN Bad
       ELSE [bad |-> FALSE,
             warn |-> \/ ~AtDigit(version)
                      \/ \E i \in DOMAIN version : version[i] = "_"
                      \/ \E i \in DOMAIN revision : revision[i] \in {"_", ":", "-"},
             v |-> [epoch |-> epoch, version |-> version, revision |-> revision]]

parseversion(text) ==
    LET s == Rest(text, Span(text, {" "}))
        end == Span(s, NotBlank)
        trimmed == SubSeq(s, 1, end)
        colon == Positions(s, ":")
    IN CASE s = <<>> \/ Span(Rest(s, end), {" "}) # Len(s) - end -> Bad
         [] OTHER ->
              IF colon = {} THEN parse_parts(0, trimmed)
              ELSE IF \/ Epoch(s).len = 0 \/ Epoch(s).len + 1 # Min(colon)
                      \/ Epoch(s).value < 0 \/ Epoch(s).value > INT_MAX
                      \/ Min(colon) = Len(s)
                     THEN Bad
                     ELSE parse_parts(Epoch(s).value, Rest(trimmed, Min(colon)))

\* varbufversion(): the epoch is written when the version could be misread.
Decimal(n) == IF n < 10 THEN <<CHOOSE d \in DOMAIN Digits : Digits[d] = n>>
              ELSE <<CHOOSE d \in DOMAIN Digits : Digits[d] = n \div 10,
                     CHOOSE d \in DOMAIN Digits : Digits[d] = n % 10>>
varbufversion_fault(v) ==
    (IF v.epoch = 0 THEN <<>> ELSE Decimal(v.epoch) \o <<":">>) \o v.version \o
    (IF v.revision # <<>> THEN <<"-">> \o v.revision ELSE <<>>)
varbufversion(v) ==
    (IF v.epoch = 0 /\ Positions(v.version, ":") = {} /\ Positions(v.revision, ":") = {}
       THEN <<>> ELSE Decimal(v.epoch) \o <<":">>) \o v.version \o
    (IF v.revision # <<>> THEN <<"-">> \o v.revision ELSE <<>>)

-----------------------------------------------------------------------------
(* enquiry.c: the table of the relations of dpkg --compare-versions, as the *)
(* answers that count as success.                                          *)
relationinfos ==
    [le |-> {"lesser", "equal", "none_a", "none_both"},
     lt |-> {"lesser", "none_a"},
     eq |-> {"equal", "none_both"},
     ne |-> {"lesser", "greater", "none_a", "none_b"},
     ge |-> {"equal", "greater", "none_both", "none_b"},
     gt |-> {"greater", "none_b"},
     lenl |-> {"lesser", "equal", "none_both", "none_b"},
     ltnl |-> {"lesser", "none_b"},
     genl |-> {"equal", "greater", "none_a", "none_both"},
     gtnl |-> {"greater", "none_a"}]

cmpversions(a, b) ==
    LET rc == dpkg_version_compare(a, b)
        none(v) == ~dpkg_version_is_informative(v)
    IN CASE none(a) -> IF none(b) THEN "none_both" ELSE "none_a"
         [] ~none(a) /\ none(b) -> "none_b"
         [] OTHER -> IF rc > 0 THEN "greater" ELSE IF rc < 0 THEN "lesser" ELSE "equal"

-----------------------------------------------------------------------------
(* lib/dpkg/depcon.c: a provided version answers a relation only if it is   *)
(* an exact one.                                                           *)
pkg_virtual_deppossi_satisfied(dependee, provider) ==
    /\ provider.verrel \in {"none", "eq"}
    /\ ~(provider.verrel = "none" /\ dependee.verrel # "none")
    /\ dpkg_version_relate(provider.version, dependee.verrel, dependee.version)

-----------------------------------------------------------------------------
Parts == UNION {[1..n -> Characters] : n \in 0..MaxPart}
Plain(part) == [epoch |-> 0, version |-> part, revision |-> <<>>]
Relations == {"none", "eq", "lt", "le", "gt", "ge"}

Ask == [kind : {"compare"}, a : Parts, b : Parts]
Parse == [kind : {"parse"}, text : Texts]

VersionsInit ==
    /\ question \in Ask \cup Parse
    /\ answer = <<>>

dpkg_answers ==
    /\ answer = <<>>
    /\ answer' = <<IF question.kind = "compare"
                     THEN [rc |-> dpkg_version_compare(Plain(question.a), Plain(question.b)),
                           cmp |-> cmpversions(Plain(question.a), Plain(question.b)),
                           virtual |-> {r \in Relations : pkg_virtual_deppossi_satisfied(
                                [verrel |-> r, version |-> Plain(question.b)],
                                [verrel |-> "eq", version |-> Plain(question.a)])}]
                     ELSE parseversion(question.text)>>
    /\ UNCHANGED question

VersionsNext == dpkg_answers
VersionsSpec == VersionsInit /\ [][VersionsNext]_versionvars

-----------------------------------------------------------------------------
(* The order as deb-version(7) defines it.  A string is a list of pairs, a *)
(* part without digits and the number after it.                            *)

\* Compare two parts without digits: a tilde sorts before the end of a part,
\* letters before everything else.
Weight(p, i) == CASE i > Len(p) -> 1
                  [] i <= Len(p) /\ p[i] = "~" -> 0
                  [] i <= Len(p) /\ p[i] \in Alpha -> ASCII[p[i]]
                  [] OTHER -> 1000 + ASCII[p[i]]
LexicalOrder(p, q) ==
    LET diff == {i \in 1..(Max({Len(p), Len(q)}) + 1) : Weight(p, i) # Weight(q, i)}
    IN IF diff = {} THEN 0
       ELSE IF Weight(p, Min(diff)) < Weight(q, Min(diff)) THEN -1 ELSE 1

Number(s) == LET n[i \in 0..Len(s)] == IF i = 0 THEN 0 ELSE 10 * n[i - 1] + Digits[s[i]]
             IN n[Len(s)]
TextPart(s) == SubSeq(s, 1, Span(s, DOMAIN ASCII))
DigitPart(s) == LET t == Rest(s, Span(s, DOMAIN ASCII))
                IN SubSeq(t, 1, Span(t, DOMAIN Digits))
AfterPair(s) == Rest(s, Len(TextPart(s)) + Len(DigitPart(s)))

RECURSIVE DocumentedOrder(_, _)
DocumentedOrder(a, b) ==
    IF a = <<>> /\ b = <<>> THEN 0
    ELSE IF LexicalOrder(TextPart(a), TextPart(b)) # 0
      THEN LexicalOrder(TextPart(a), TextPart(b))
    ELSE IF Number(DigitPart(a)) # Number(DigitPart(b))
      THEN IF Number(DigitPart(a)) < Number(DigitPart(b)) THEN -1 ELSE 1
    ELSE DocumentedOrder(AfterPair(a), AfterPair(b))

Sign(n) == IF n < 0 THEN -1 ELSE IF n = 0 THEN 0 ELSE 1

\* verrevcmp() and what is decided with it (version.c:81-122, :139-197,
\* enquiry.c:920-973, depcon.c:112-127) give the documented order
\* (man/deb-version.pod:115-140): the code walks both strings at once,
\* character by character, and compares numbers of any length without
\* computing them.
OrderAsDocumented ==
    (question.kind = "compare" /\ answer # <<>>) =>
        LET r == answer[1]
            d == DocumentedOrder(question.a, question.b)
            here == question.a # <<>> /\ question.b # <<>>
        IN /\ Sign(r.rc) = d
           /\ here => /\ ("lt" \in r.virtual) = (d < 0)
                      /\ \A rel \in {"lt", "le", "eq", "ge", "gt"} :
                            (rel \in r.virtual) = (r.cmp \in relationinfos[rel])

\* A version that was accepted is written so that it reads back as the same
\* version (parsehelp.c:162-191, :242-324): the epoch of 0 is left out unless
\* a colon in the version would be taken for one, and the last hyphen begins
\* the revision.
VersionsReadBack ==
    (question.kind = "parse" /\ answer # <<>>) =>
        LET r == answer[1]
        IN ~r.bad => /\ ~parseversion(varbufversion(r.v)).bad
                     /\ parseversion(varbufversion(r.v)).v = r.v
                     /\ parseversion(varbufversion(r.v)).warn = r.warn
=============================================================================
