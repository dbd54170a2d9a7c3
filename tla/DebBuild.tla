------------------------------ MODULE DebBuild ------------------------------
(***************************************************************************)
(* dpkg-deb --build: do_build() of src/deb/build.c with the tree walk that *)
(* feeds it (lib/dpkg/treewalk.c) and the pipeline of tarball_pack():      *)
(*                                                                         *)
(*     dpkg-deb --names--> tar --tarball--> compressor --> temporary file  *)
(*                                                                         *)
(* B is dpkg-deb, T is tar, C the compressor.  A pathname is a sequence of *)
(* numbers, ordered as strcmp() orders the names; Debian == <<0>> is the   *)
(* control directory.                                                      *)
(***************************************************************************)
EXTENDS Naturals, Sequences, FiniteSets, SequencesExt

CONSTANTS
    Trees,      \* the directories built
    PipeRoom    \* names or blocks a pipe holds

VARIABLES
    src,        \* kind : pathname -> file type, conffiles, perms; options
    buildpc,       \* where do_build() is
    walk,       \* struct treeroot: curnode, curdir
    symlist,    \* symbolic links kept for the end of the feed
    pipes,      \* filenames and tarball
    procs,      \* of B, T, C
    missed,     \* tar could not read a file it was told to pack
    temp,       \* the temporary file: blocks of the compressed member
    deb         \* the members written to the archive

buildvars == <<src, buildpc, walk, symlist, pipes, procs, missed, temp, deb>>

NoPath == <<99>>          \* the null pointer: no pathname
Debian == <<0>>
Nodes == DOMAIN src.kind
Kind(p) == src.kind[p]
EmptyPipe == [buf |-> <<>>, w |-> {}, r |-> {}]

-----------------------------------------------------------------------------
(* lib/dpkg/treewalk.c.  The walk of a directory root: the nodes below it. *)

Up(p) == IF p = <<>> \/ p = NoPath THEN NoPath ELSE Front(p)
treenode_fill_down(p) == {q \in Nodes : q # <<>> /\ Front(q) = p}

\* treenode_sort_down(): the first child, and the sibling that follows.
First(S) == IF S = {} THEN NoPath
            ELSE CHOOSE p \in S : \A q \in S : Last(p) <= Last(q)
Down0(p) == First(treenode_fill_down(p))
NextOf(p, root) ==
    IF p = root THEN NoPath
    ELSE First({q \in treenode_fill_down(Front(p)) : Last(q) > Last(p)})
UpOf(p, root) == IF p = root THEN NoPath ELSE Up(p)

\* The back-tracking of treewalk_next(), one turn at a time: the next entry
\* of the parent directory, or of the grand-parent directory.
Turn_fault(t, root) ==
    IF NextOf(t.dir, root) # NoPath
      THEN [node |-> NextOf(t.dir, root), dir |-> UpOf(t.dir, root)]
      ELSE IF UpOf(t.dir, root) # NoPath
        THEN [node |-> NextOf(UpOf(t.dir, root), root), dir |-> UpOf(t.dir, root)]
        ELSE [node |-> NoPath, dir |-> NoPath]

Turn(t, root) ==
    IF NextOf(t.dir, root) # NoPath
      THEN [node |-> NextOf(t.dir, root), dir |-> UpOf(t.dir, root)]
      ELSE IF UpOf(t.dir, root) # NoPath
        THEN [node |-> NextOf(UpOf(t.dir, root), root),
              dir |-> UpOf(UpOf(t.dir, root), root)]
        ELSE [node |-> NoPath, dir |-> NoPath]

Ascend[k \in 0..4, t \in [node : Nodes \cup {NoPath}, dir : Nodes \cup {NoPath}],
       root \in Nodes] ==
    IF k = 0 \/ t.node # NoPath \/ t.dir = NoPath THEN t
    ELSE Ascend[k - 1, Turn(t, root), root]

\* lstat() is used, so a walk meets no directory loop.
treewalk_next(t, root) ==
    Ascend[4, IF Kind(t.node) = "dir"
                THEN [node |-> Down0(t.node), dir |-> t.node]
                ELSE [node |-> NextOf(t.node, root), dir |-> t.dir],
           root]

treewalk_open(root) == [node |-> root, dir |-> root]

-----------------------------------------------------------------------------
(* The options: compressor type, level and strategy, one compressor for    *)
(* both members or not, and the archive format.                            *)

opt == src.opts

parse_compress_type(t) == t \in {"none", "gzip", "xz", "zst"}

\* gzip at level 0 is no compression at all; a negative level is the default.
compressor_fixup_params(o) ==
    [o EXCEPT !.type = IF @ = "gzip" /\ o.level = 0 THEN "none" ELSE @]

compressor_check_params(o) ==
    /\ o.type # "zst" => o.level <= 9
    /\ \/ o.strategy = "none"
       \/ o.type = "gzip" /\ o.strategy \in {"filtered", "huffman", "rle", "fixed"}
       \/ o.type = "xz" /\ o.strategy = "extreme"

compress_params_deb0 == [opt EXCEPT !.type = "gzip", !.level = 9, !.strategy = "none"]

compress_params == compressor_fixup_params(
    IF opt.format = 0 THEN compress_params_deb0 ELSE opt)

control_compress_params ==
    IF opt.uniform THEN compress_params ELSE compress_params_deb0

\* main() of dpkg-deb: the combinations it refuses.
main_accepts ==
    /\ parse_compress_type(opt.type)
    /\ ~(~opt.uniform /\ opt.format = 0)
    /\ compressor_check_params(compress_params)
    /\ opt.uniform => compress_params.type \in {"none", "gzip", "zst", "xz"}

-----------------------------------------------------------------------------
(* The checks before anything is written. *)

\* check_conffiles(): a listed conffile is in the package, one that is to be
\* removed on upgrade is not.
check_conffiles ==
    \A c \in src.conffiles : c.remove_on_upgrade <=> c.path \notin Nodes

check_ctrl_perms == src.perms
check_ctrl_control == Debian \o <<1>> \in Nodes

check_build_files ==
    /\ check_ctrl_control /\ check_ctrl_perms /\ check_conffiles

-----------------------------------------------------------------------------
(* tarball_pack() *)

EndProc(p, how) ==
    /\ procs' = [procs EXCEPT ![p] = how]
    /\ pipes' = [q \in DOMAIN pipes |->
                   [pipes[q] EXCEPT !.w = @ \ {p}, !.r = @ \ {p}]]

Die == buildpc' = "failed" /\ EndProc("B", "err")

\* The pipes and the two children.  tar holds the read end of the names and
\* the write end of the tarball; the compressor inherits the write end of
\* the names and closes it; the parent keeps only that one.
Pipes_fault ==
    [names |-> [EmptyPipe EXCEPT !.w = {"B", "C"}, !.r = {"T"}],
     tarball |-> [EmptyPipe EXCEPT !.w = {"T"}, !.r = {"C"}]]

Pipes ==
    [names |-> [EmptyPipe EXCEPT !.w = {"B"}, !.r = {"T"}],
     tarball |-> [EmptyPipe EXCEPT !.w = {"T"}, !.r = {"C"}]]

Member == IF buildpc \in {"control", "feed_control", "links_control",
                       "reap_control"}
            THEN "control" ELSE "data"
Root == IF Member = "control" THEN Debian ELSE <<>>

tarball_pack ==
    /\ buildpc \in {"control", "data"}
    /\ pipes' = Pipes
    /\ procs' = [procs EXCEPT !.T = "run", !.C = "run"]
    /\ missed' = FALSE /\ temp' = <<>> /\ symlist' = <<>>
    /\ walk' = treewalk_open(Root)
    /\ buildpc' = IF Member = "control" THEN "feed_control" ELSE "feed_data"
    /\ UNCHANGED <<src, deb>>

\* fd_write() of a name to tar's standard input.
FeedName(p, effect) ==
    \/ /\ pipes.names.r = {}
       /\ buildpc' = "failed" /\ EndProc("B", "sigpipe")
       /\ UNCHANGED <<walk, symlist>>
    \/ /\ pipes.names.r # {} /\ Len(pipes.names.buf) < PipeRoom
       /\ pipes' = [pipes EXCEPT !.names.buf = Append(@, p)]
       /\ UNCHANGED procs /\ effect

control_treewalk_feed ==
    /\ buildpc = "feed_control" /\ walk.node # NoPath
    /\ FeedName(walk.node, /\ walk' = treewalk_next(walk, Root)
                           /\ UNCHANGED <<buildpc, symlist>>)
    /\ UNCHANGED <<src, missed, temp, deb>>

\* The control directory is left out, a name with a newline is refused and
\* symbolic links wait until everything else has been fed.
file_treewalk_feed ==
    /\ buildpc = "feed_data" /\ walk.node # NoPath
    /\ LET p == walk.node
           Go == walk' = treewalk_next(walk, Root)
       IN \/ /\ IsPrefix(Debian, p)
             /\ Go /\ UNCHANGED <<buildpc, symlist, pipes, procs>>
          \/ /\ ~IsPrefix(Debian, p) /\ src.check /\ Kind(p) = "newline"
             /\ Die /\ UNCHANGED <<walk, symlist>>
          \/ /\ ~IsPrefix(Debian, p) /\ Kind(p) = "link"
             /\ symlist' = Append(symlist, p)
             /\ Go /\ UNCHANGED <<buildpc, pipes, procs>>
          \/ /\ ~IsPrefix(Debian, p)
             /\ Kind(p) \in {"dir", "file"} \/ (Kind(p) = "newline" /\ ~src.check)
             /\ FeedName(p, Go /\ UNCHANGED <<buildpc, symlist>>)
    /\ UNCHANGED <<src, missed, temp, deb>>

\* After the walk: the links, then the write end is closed.
feed_symlinks ==
    /\ buildpc \in {"feed_control", "feed_data"} /\ walk.node = NoPath
    /\ IF symlist # <<>>
         THEN FeedName(Head(symlist),
                       symlist' = Tail(symlist) /\ UNCHANGED <<buildpc, walk>>)
         ELSE /\ pipes' = [pipes EXCEPT !.names.w = @ \ {"B"}]
              /\ buildpc' = IF buildpc = "feed_control" THEN "reap_control" ELSE "reap_data"
              /\ UNCHANGED <<procs, symlist, walk>>
    /\ UNCHANGED <<src, missed, temp, deb>>

\* subproc_reap() of the compressor and then of tar; any failure is fatal.
tarball_reap ==
    /\ buildpc \in {"reap_control", "reap_data"}
    /\ \/ /\ procs.C \in {"err", "sigpipe"} /\ Die
       \/ /\ procs.C = "ok" /\ procs.T \in {"err", "sigpipe"} /\ Die
       \/ /\ procs.C = "ok" /\ procs.T = "ok"
          /\ buildpc' = IF buildpc = "reap_control" THEN "put_control" ELSE "put_data"
          /\ UNCHANGED <<procs, pipes>>
    /\ UNCHANGED <<src, walk, symlist, missed, temp, deb>>

\* tar, external: packs what it is told; a file that cannot be read is left
\* out and makes it exit with an error at the end.
tar_packs ==
    /\ procs.T = "run"
    /\ \/ /\ pipes.names.buf # <<>> /\ pipes.tarball.r = {}
          /\ EndProc("T", "sigpipe") /\ UNCHANGED missed
       \/ /\ pipes.names.buf # <<>> /\ pipes.tarball.r # {}
          /\ Len(pipes.tarball.buf) < PipeRoom
          /\ pipes' = [pipes EXCEPT !.names.buf = Tail(@),
                                    !.tarball.buf = Append(@, Head(pipes.names.buf))]
          /\ UNCHANGED <<procs, missed>>
       \/ /\ pipes.names.buf # <<>> /\ Kind(Head(pipes.names.buf)) = "file"
          /\ pipes' = [pipes EXCEPT !.names.buf = Tail(@)]
          /\ missed' = TRUE /\ UNCHANGED procs
       \/ /\ pipes.names.buf = <<>> /\ pipes.names.w = {}
          /\ EndProc("T", IF missed THEN "err" ELSE "ok") /\ UNCHANGED missed
    /\ UNCHANGED <<src, buildpc, walk, symlist, temp, deb>>

\* compress_filter(): copies, and writes the end mark at the end of its
\* input; a write may fail (no fairness: it need not).
compress_filter ==
    /\ procs.C = "run"
    /\ \/ /\ pipes.tarball.buf # <<>>
          /\ temp' = Append(temp, Head(pipes.tarball.buf))
          /\ pipes' = [pipes EXCEPT !.tarball.buf = Tail(@)] /\ UNCHANGED procs
       \/ /\ pipes.tarball.buf = <<>> /\ pipes.tarball.w = {}
          /\ EndProc("C", "ok") /\ UNCHANGED temp
    /\ UNCHANGED <<src, buildpc, walk, symlist, missed, deb>>

compress_fails ==
    /\ procs.C = "run" /\ EndProc("C", "err")
    /\ UNCHANGED <<src, buildpc, walk, symlist, missed, temp, deb>>

-----------------------------------------------------------------------------
(* do_build() *)

do_build ==
    /\ buildpc = "check"
    /\ IF ~main_accepts \/ (src.check /\ ~check_build_files)
         THEN Die /\ UNCHANGED deb
         ELSE /\ deb' = <<>>                  \* dpkg_ar_create()
              /\ buildpc' = "control" /\ UNCHANGED <<pipes, procs>>
    /\ UNCHANGED <<src, walk, symlist, missed, temp>>

\* dpkg_ar_member_put_mem() and dpkg_ar_member_put_file(): the header has
\* the size of the whole file; the copy may fail half way.
\* In the old format the compressor has written the data itself.
dpkg_ar_member_put_file(name, comp) ==
    LET member(body) == [name |-> name, comp |-> comp.type,
                         size |-> Len(temp), body |-> body]
    IN \/ /\ deb' = Append(deb, member(temp))
          /\ buildpc' = IF name = "control" THEN "data" ELSE "sync"
          /\ UNCHANGED <<pipes, procs>>
       \/ /\ temp # <<>> /\ ~(opt.format = 0 /\ name = "data")
          /\ deb' = Append(deb, member(Front(temp)))
          /\ Die

put_member ==
    /\ buildpc \in {"put_control", "put_data"}
    /\ IF buildpc = "put_control"
         THEN dpkg_ar_member_put_file("control", control_compress_params)
         ELSE dpkg_ar_member_put_file("data", compress_params)
    /\ UNCHANGED <<src, walk, symlist, missed, temp>>

sync_and_close ==
    /\ buildpc = "sync"
    /\ \/ buildpc' = "built" /\ EndProc("B", "ok")
       \/ Die
    /\ UNCHANGED <<src, walk, symlist, missed, temp, deb>>

-----------------------------------------------------------------------------
BuildInit ==
    /\ src \in Trees
    /\ buildpc = "check" /\ walk = treewalk_open(<<>>) /\ symlist = <<>>
    /\ pipes = [names |-> EmptyPipe, tarball |-> EmptyPipe]
    /\ procs = [B |-> "run", T |-> "none", C |-> "none"]
    /\ missed = FALSE /\ temp = <<>> /\ deb = <<>>

Builder == \/ do_build \/ tarball_pack \/ control_treewalk_feed
           \/ file_treewalk_feed \/ feed_symlinks \/ tarball_reap
           \/ put_member \/ sync_and_close

BuildNext == Builder \/ tar_packs \/ compress_filter \/ compress_fails

BuildFairness == /\ WF_buildvars(Builder) /\ WF_buildvars(tar_packs)
                 /\ WF_buildvars(compress_filter)

BuildSpec == BuildInit /\ [][BuildNext]_buildvars /\ BuildFairness

-----------------------------------------------------------------------------
\* A package that was built is whole (build.c:523-806, treewalk.c:440-520):
\* the control member comes first, the data member has every pathname of the
\* directory except the control directory, each once, a directory before
\* what is in it and the symbolic links after everything else, the conffiles
\* that are listed are there, and extracthalf() (extract.c:185) knows the
\* compressors used.  The walk back-tracks two levels at
\* a time, and a file that tar lost is known only from tar's exit status.
BuiltIsWhole ==
    buildpc = "built" =>
        LET data == deb[2].body
            at(p) == CHOOSE i \in DOMAIN data : data[i] = p
            Shipped == {p \in Nodes : ~IsPrefix(Debian, p)}
        IN /\ deb[1].name = "control" /\ deb[2].name = "data"
           /\ deb[1].comp \in {"none", "gzip", "zst", "xz"}
           /\ opt.format = 0 => deb[1].comp = "gzip" /\ deb[2].comp = "gzip"
           /\ ToSet(deb[1].body) = Nodes \ Shipped
           /\ ToSet(data) = Shipped /\ Len(data) = Cardinality(Shipped)
           /\ \A p \in Shipped \ {<<>>} : at(Front(p)) < at(p)
           /\ \A p, q \in Shipped :
                 Kind(p) = "link" /\ Kind(q) # "link" => at(q) < at(p)
           /\ src.check =>
                 \A c \in src.conffiles : ~c.remove_on_upgrade => c.path \in Shipped
           /\ \A m \in ToSet(deb) : Len(m.body) = m.size

\* A build ends, whichever of tar, the compressor and the walk fails first
\* (build.c:533-596): nobody waits for the end of a pipe that one of the
\* waiting processes holds open.
Finished == \A p \in {"B", "T", "C"} : procs[p] # "run"
=============================================================================
