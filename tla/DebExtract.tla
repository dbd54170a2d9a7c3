----------------------------- MODULE DebExtract -----------------------------
(***************************************************************************)
(* Reading a .deb: extracthalf() of dpkg-deb (src/deb/extract.c) with the  *)
(* processes it forks, and dpkg's reader of its output (process_archive(), *)
(* tar_extractor()).                                                       *)
(*                                                                         *)
(*     archive --paste--> p1 --decompressor--> p2 --> tar, or dpkg         *)
(*                                                                         *)
(* B is dpkg-deb itself, c1 the copying child, c2 the decompressor, c3 tar *)
(* and D is dpkg.  A pipe has a bounded buffer and the sets of processes   *)
(* that hold its ends: a reader sees the end of file only when nobody      *)
(* holds the write end, a writer gets SIGPIPE only when nobody holds the   *)
(* read end.                                                               *)
(*                                                                         *)
(* An archive is its members; a member's body is a sequence of chunks:     *)
(* "entry", "sym", "long" and "eot" are the tar stream, "trail" what       *)
(* follows it, "end" is the end mark of a compressed stream and "bad" a    *)
(* damaged chunk.                                                          *)
(* A member whose body is shorter than its size is where the file was cut. *)
(***************************************************************************)
EXTENDS Naturals, Sequences, FiniteSets, SequencesExt

CONSTANTS
    Archives,   \* the archives read
    Jobs,       \* what is asked of them
    PipeSize    \* chunks a pipe holds

VARIABLES
    archive,    \* the archive of the run
    job,        \* the extracthalf() calls left: [half, sink]
    dpc,        \* dpkg, or the user's shell
    bpc,        \* where extracthalf() is
    ar,         \* index of the next member, adminmember, ctrllennum # 0
    pos,        \* chunks paste has copied
    c2ended,    \* the decompressor has seen the end mark
    pipe,       \* p1 and p2: buffer, holders of the write and read ends
    life,       \* of B, c1, c2, c3
    got,        \* the tar entries that arrived, by half
    symlinks    \* tar_extractor()'s deferred symbolic links

debvars == <<archive, job, dpc, bpc, ar, pos, c2ended, pipe, life, got,
             symlinks>>

Procs == {"B", "c1", "c2", "c3"}
Ended == {"ok", "err", "sigpipe"}
NoPipe == [buf |-> <<>>, w |-> {}, r |-> {}]
Halves == {"control", "data"}

Half == Head(job).half
Sink == Head(job).sink
Members == archive.members
Compressed == {"gzip", "xz", "zst", "bzip2", "lzma"}

\* A process ends: the kernel closes its descriptors.
Exit(p, how) ==
    /\ life' = [life EXCEPT ![p] = how]
    /\ pipe' = [q \in DOMAIN pipe |->
                  [pipe[q] EXCEPT !.w = @ \ {p}, !.r = @ \ {p}]]

\* subproc_fork(): the child has every descriptor its parent has, except
\* the ends it closes at once.
Fork(pipes, parent, child, closes_w, closes_r) ==
    [q \in DOMAIN pipes |->
       [pipes[q] EXCEPT
          !.w = IF parent \in @ /\ q \notin closes_w THEN @ \cup {child} ELSE @,
          !.r = IF parent \in @ /\ q \notin closes_r THEN @ \cup {child} ELSE @]]

CloseW(pipes, q, p) == [pipes EXCEPT ![q].w = @ \ {p}]
CloseR(pipes, q, p) == [pipes EXCEPT ![q].r = @ \ {p}]

-----------------------------------------------------------------------------
(* subproc_check(): is the status of a reaped child acceptable? *)

SUBPROC_NOPIPE == "nopipe"
subproc_check(status, flags) ==
    \/ status = "ok"
    \/ status = "sigpipe" /\ flags = SUBPROC_NOPIPE

\* subproc_reap() of child by parent: wait, then go on at next or fail.
subproc_reap(child, flags, next) ==
    /\ life[child] \in Ended
    /\ IF subproc_check(life[child], flags)
         THEN bpc' = next /\ UNCHANGED <<life, pipe>>
         ELSE bpc' = "failed" /\ Exit("B", "err")

-----------------------------------------------------------------------------
(* The jobs. do_extract() and do_contents() take the data half through     *)
(* tar, do_control() and info_prepare() the control half, do_raw_extract() *)
(* both; dpkg runs dpkg-deb --control and then reads --fsys-tarfile.       *)

do_extract     == << [half |-> "data", sink |-> "tar"] >>
do_control     == << [half |-> "control", sink |-> "tar"] >>
do_contents    == do_extract
info_prepare   == do_control
do_raw_extract == do_extract \o do_control
unpack         == do_control \o << [half |-> "data", sink |-> "dpkg"] >>

Calls(j) == CASE j = "extract" -> do_extract
              [] j = "control" -> do_control
              [] j = "contents" -> do_contents
              [] j = "info" -> info_prepare
              [] j = "raw" -> do_raw_extract
              [] j = "unpack" -> unpack

FirstMember == [next |-> 1, admin |-> "none", control |-> FALSE]

\* dpkg-deb is started by dpkg; its output is the pipe p2 that dpkg made
\* and whose write end dpkg has closed.
Started(p2) ==
    /\ bpc' = "open"
    /\ ar' = FirstMember
    /\ life' = [p \in Procs |-> IF p = "B" THEN "run" ELSE "none"]
    /\ pipe' = [p1 |-> NoPipe, p2 |-> p2]

Spawn ==
    /\ dpc = "spawn"
    /\ dpc' = IF Sink = "dpkg" THEN "extract" ELSE "wait"
    /\ Started(IF Sink = "dpkg" THEN [NoPipe EXCEPT !.w = {"B"}, !.r = {"D"}]
               ELSE NoPipe)
    /\ UNCHANGED <<archive, job, pos, c2ended, got, symlinks>>

-----------------------------------------------------------------------------
(* The loop of extracthalf() over the archive's members. *)

Fail == bpc' = "failed" /\ Exit("B", "err") /\ UNCHANGED ar

\* The size of a pipe is taken to be 0.
dpkg_ar_check_size == ~(archive.seekable /\ archive.odd)

\* The magic: an ar archive whose size is even, the old format, or neither.
extracthalf_magic ==
    /\ bpc = "open"
    /\ \/ /\ archive.magic = "ar" /\ dpkg_ar_check_size
          /\ bpc' = "member" /\ UNCHANGED <<life, pipe, ar>>
       \/ /\ archive.magic = "old"
          /\ bpc' = "old" /\ UNCHANGED <<life, pipe, ar>>
       \/ /\ archive.magic = "junk" \/ (archive.magic = "ar" /\ ~dpkg_ar_check_size)
          /\ Fail
    /\ UNCHANGED <<archive, job, dpc, pos, c2ended, got, symlinks>>

\* fd_skip() seeks without looking; a pipe is read, and runs out.
fd_skip(m) == archive.seekable \/ Len(m.body) >= m.size

\* What the member's name and place make of it.
header_member(m) == ar.next = 1
Skipped(m) == ar.next > 1 /\ m.name = "_extra"
AdminOk(m) == /\ m.name = "control"
              /\ m.comp \in {"none", "gzip", "zst", "xz"}
              /\ ~ar.control /\ m.size > 0
DataOk(m) == /\ m.name = "data" /\ ar.admin = "control"
             /\ m.comp \in Compressed \cup {"none"} /\ m.size > 0

Wanted(m) == m.name = Half

\* One turn of the loop.  The end of the file, a bad header, a first member
\* that is not debian-binary 2.x, a second control member, a data member
\* before the control member, an unknown member or compression, an empty
\* member and a member longer than the file are all errors.
extracthalf_member ==
    /\ bpc = "member"
    /\ LET n == ar.next
           m == Members[n]
           Next1 == /\ ar' = [ar EXCEPT !.next = n + 1]
                    /\ UNCHANGED <<bpc, life, pipe>>
       IN \/ n > Len(Members) /\ Fail
          \/ /\ n <= Len(Members) /\ header_member(m)
             /\ IF m.name = "debian-binary" /\ Len(m.body) >= m.size
                  THEN Next1 ELSE Fail
          \/ /\ n <= Len(Members) /\ Skipped(m)
             /\ IF fd_skip(m) THEN Next1 ELSE Fail
          \/ /\ n <= Len(Members) /\ n > 1 /\ (AdminOk(m) \/ DataOk(m))
             /\ ~Wanted(m)
             /\ IF fd_skip(m)
                  THEN /\ ar' = [next |-> n + 1, admin |-> m.name,
                                 control |-> ar.control \/ m.name = "control"]
                       /\ UNCHANGED <<bpc, life, pipe>>
                  ELSE Fail
          \/ /\ n <= Len(Members) /\ n > 1 /\ (AdminOk(m) \/ DataOk(m))
             /\ Wanted(m)
             /\ IF archive.seekable /\ Len(m.body) < m.size
                  THEN Fail
                  ELSE bpc' = "fork1" /\ UNCHANGED <<life, pipe, ar>>
          \/ /\ n <= Len(Members) /\ n > 1
             /\ ~Skipped(m) /\ ~AdminOk(m) /\ ~DataOk(m)
             /\ Fail
    /\ UNCHANGED <<archive, job, dpc, pos, c2ended, got, symlinks>>

\* The old format: the control member's size is in the header, the data is
\* whatever follows it, so a cut cannot be seen here.
old_format ==
    /\ bpc = "old"
    /\ LET n == IF Half = "control" THEN 1 ELSE 2
       IN IF n = 2 /\ ~fd_skip(Members[1])
            THEN Fail
            ELSE /\ ar' = [ar EXCEPT !.next = n]
                 /\ bpc' = "fork1" /\ UNCHANGED <<life, pipe>>
    /\ UNCHANGED <<archive, job, dpc, pos, c2ended, got, symlinks>>

-----------------------------------------------------------------------------
(* The pipeline. *)

Member == Members[ar.next]
Comp == IF archive.magic = "old" THEN "gzip" ELSE Member.comp
memberlen == IF archive.magic = "old" /\ Half = "data"
               THEN Len(Member.body) ELSE Member.size

\* m_pipe(p1), the paste child, close(p1[1]) in the parent.
fork_paste_fault ==
    /\ bpc = "fork1"
    /\ LET made == [pipe EXCEPT !.p1 = [NoPipe EXCEPT !.w = {"B"}, !.r = {"B"}]]
       IN pipe' = Fork(made, "B", "c1", {}, {"p1"})
    /\ life' = [life EXCEPT !.c1 = "run"]
    /\ pos' = 0 /\ c2ended' = FALSE /\ bpc' = "fork2"
    /\ UNCHANGED <<archive, job, dpc, ar, got, symlinks>>

fork_paste ==
    /\ bpc = "fork1"
    /\ LET made == [pipe EXCEPT !.p1 = [NoPipe EXCEPT !.w = {"B"}, !.r = {"B"}]]
       IN pipe' = CloseW(Fork(made, "B", "c1", {}, {"p1"}), "p1", "B")
    /\ life' = [life EXCEPT !.c1 = "run"]
    /\ pos' = 0 /\ c2ended' = FALSE /\ bpc' = "fork2"
    /\ UNCHANGED <<archive, job, dpc, ar, got, symlinks>>

\* The decompressor child; then the parent closes p1[0], and p2[1] when tar
\* is to read p2.
fork_decompress ==
    /\ bpc = "fork2"
    /\ LET made == IF Sink = "tar"
                     THEN [pipe EXCEPT !.p2 = [NoPipe EXCEPT !.w = {"B"},
                                                             !.r = {"B"}]]
                     ELSE pipe
           forked == CloseR(Fork(made, "B", "c2", {}, {"p2"}), "p1", "B")
       IN pipe' = IF Sink = "tar" THEN CloseW(forked, "p2", "B") ELSE forked
    /\ life' = [life EXCEPT !.c2 = "run"]
    /\ bpc' = IF Sink = "tar" THEN "fork3" ELSE "reap2"
    /\ UNCHANGED <<archive, job, dpc, ar, pos, c2ended, got, symlinks>>

fork_tar ==
    /\ bpc = "fork3"
    /\ pipe' = CloseR(Fork(pipe, "B", "c3", {}, {}), "p2", "B")
    /\ life' = [life EXCEPT !.c3 = "run"]
    /\ bpc' = "reap3"
    /\ UNCHANGED <<archive, job, dpc, ar, pos, c2ended, got, symlinks>>

\* The children are reaped from the reader up; then the call returns, and
\* dpkg-deb exits or goes on with its next call.
extracthalf_reap ==
    /\ \/ bpc = "reap3" /\ subproc_reap("c3", "", "reap2")
       \/ bpc = "reap2" /\ subproc_reap("c2", SUBPROC_NOPIPE, "reap1")
       \/ bpc = "reap1" /\ subproc_reap("c1", "", "return")
    /\ UNCHANGED <<archive, job, dpc, ar, pos, c2ended, got, symlinks>>

extracthalf_return ==
    /\ bpc = "return"
    /\ IF dpc = "wait" /\ Len(job) > 1 /\ job[2].sink = "tar"
         THEN /\ job' = Tail(job)
              /\ Started(NoPipe)
         ELSE /\ bpc' = "done" /\ Exit("B", "ok")
              /\ UNCHANGED <<job, ar>>
    /\ UNCHANGED <<archive, dpc, pos, c2ended, got, symlinks>>

\* A write to a pipe: SIGPIPE when nobody can read it, else it needs room.
Write(p, q, c, effect) ==
    \/ /\ pipe[q].r = {} /\ Exit(p, "sigpipe") /\ UNCHANGED <<pos, c2ended>>
    \/ /\ pipe[q].r # {} /\ Len(pipe[q].buf) < PipeSize
       /\ pipe' = [pipe EXCEPT ![q].buf = Append(@, c)]
       /\ UNCHANGED life /\ effect

\* fd_fd_copy(ar, p1[1], memberlen): the paste child, and buffer_copy()'s
\* complaint about a file that ends early.
fd_fd_copy_ends_fault == "ok"
fd_fd_copy_ends == IF pos = memberlen THEN "ok" ELSE "err"

paste ==
    /\ life.c1 = "run"
    /\ IF pos < memberlen /\ pos < Len(Member.body)
         THEN Write("c1", "p1", Member.body[pos + 1],
                    pos' = pos + 1 /\ UNCHANGED c2ended)
         ELSE Exit("c1", fd_fd_copy_ends) /\ UNCHANGED <<pos, c2ended>>
    /\ UNCHANGED <<archive, job, dpc, bpc, ar, got, symlinks>>

\* What each decompressor makes of its next input, a chunk or the end of
\* file: it passes the chunk on, skips it, or ends, well or not.  The
\* pass-through and the zstd filter end quietly at an end of file, the others
\* know that the mark is missing (an input with nothing in it, which only the
\* old format lets through, is an empty gzip stream).  gzip reads on after an
\* end mark and ignores what it finds there.
decompress_none(c) == IF c = "eof" THEN "ok" ELSE "pass"
decompress_gzip(c) ==
    CASE c = "eof" -> IF c2ended \/ pos = 0 THEN "ok" ELSE "err"
      [] c # "eof" /\ (c2ended \/ c = "end") -> "skip"
      [] ~c2ended /\ c = "bad" -> "err"
      [] OTHER -> "pass"
decompress_bzip2(c) ==
    CASE c \in {"eof", "bad"} -> "err" [] c = "end" -> "ok" [] OTHER -> "pass"
filter_lzma_code(c) ==
    CASE c \in {"eof", "bad"} -> "err" [] c = "end" -> "ok" [] OTHER -> "pass"
filter_unzstd_code(c) ==
    CASE c = "bad" -> "err" [] c \in {"eof", "end"} -> "ok" [] OTHER -> "pass"

\* compressor_array[]
decompress(c) == CASE Comp = "none" -> decompress_none(c)
                   [] Comp = "gzip" -> decompress_gzip(c)
                   [] Comp = "bzip2" -> decompress_bzip2(c)
                   [] Comp \in {"xz", "lzma"} -> filter_lzma_code(c)
                   [] Comp = "zst" -> filter_unzstd_code(c)

Take(q) == [pipe EXCEPT ![q].buf = Tail(@)]

\* decompress_filter(): one chunk, or the end of the input.
decompress_filter ==
    /\ life.c2 = "run"
    /\ pipe.p1.buf # <<>> \/ pipe.p1.w = {}
    /\ LET chunk == IF pipe.p1.buf = <<>> THEN "eof" ELSE Head(pipe.p1.buf)
           does == decompress(chunk)
       IN \/ /\ does \in {"ok", "err"}
             /\ Exit("c2", does) /\ UNCHANGED c2ended
          \/ /\ does = "skip"
             /\ c2ended' = TRUE /\ pipe' = Take("p1") /\ UNCHANGED life
          \/ /\ does = "pass" /\ pipe.p2.r = {}
             /\ Exit("c2", "sigpipe") /\ UNCHANGED c2ended
          \/ /\ does = "pass" /\ pipe.p2.r # {} /\ Len(pipe.p2.buf) < PipeSize
             /\ pipe' = [Take("p1") EXCEPT !.p2.buf = Append(@, chunk)]
             /\ UNCHANGED <<life, c2ended>>
    /\ UNCHANGED <<archive, job, dpc, bpc, ar, pos, got, symlinks>>

\* tar, external: takes the entries, may stop at the end-of-tape block or
\* read on, fails on garbage and may fail on an end of file without one.
tar ==
    /\ life.c3 = "run"
    /\ \/ /\ pipe.p2.buf = <<>> /\ pipe.p2.w = {}
          /\ \E how \in (IF "eot" \in ToSet(got[Half]) THEN {"ok"}
                         ELSE {"ok", "err"}) : Exit("c3", how)
          /\ UNCHANGED got
       \/ /\ pipe.p2.buf # <<>>
          /\ LET chunk == Head(pipe.p2.buf)
                 Over == "eot" \in ToSet(got[Half])
             IN \/ Over /\ Exit("c3", "ok") /\ UNCHANGED got
                \/ Over /\ pipe' = Take("p2") /\ UNCHANGED <<life, got>>
                \/ /\ ~Over /\ chunk \in {"entry", "sym", "long", "eot"}
                   /\ pipe' = Take("p2") /\ got' = [got EXCEPT ![Half] = Append(@, chunk)]
                   /\ UNCHANGED life
                \/ /\ ~Over
                   /\ Exit("c3", "err") /\ UNCHANGED got
    /\ UNCHANGED <<archive, job, dpc, bpc, ar, pos, c2ended, symlinks>>

-----------------------------------------------------------------------------
(* dpkg. *)

Stop(verdict) ==
    /\ dpc' = verdict
    /\ pipe' = CloseR(pipe, "p2", "D")

\* A header whose checksum fails is an error; "trail" is no header either.
tar_header_decode(c) == c \notin {"bad", "trail", "end"}

\* The blocks of a GNU long name or link name stand before the header they
\* belong to; an end of file among them is no error.
tar_gnu_long(c) == c = "long"

\* tar_extractor(): an entry is handed to tarobject(), which may fail; a
\* symbolic link is kept for the end; the end-of-tape block and an end of
\* file at a block boundary end the loop alike.
tar_extractor ==
    /\ dpc = "extract"
    /\ \/ /\ pipe.p2.buf # <<>>
          /\ LET chunk == Head(pipe.p2.buf)
             IN \/ /\ chunk = "entry"
                   /\ pipe' = Take("p2")
                   /\ got' = [got EXCEPT !.data = Append(@, chunk)]
                   /\ UNCHANGED <<dpc, symlinks>>
                \/ /\ chunk = "sym"
                   /\ pipe' = Take("p2") /\ symlinks' = Append(symlinks, chunk)
                   /\ UNCHANGED <<dpc, got>>
                \/ /\ tar_gnu_long(chunk)
                   /\ pipe' = Take("p2") /\ UNCHANGED <<dpc, got, symlinks>>
                \/ /\ chunk = "eot"
                   /\ pipe' = Take("p2") /\ dpc' = "links"
                   /\ UNCHANGED <<got, symlinks>>
                \/ /\ ~tar_header_decode(chunk) \/ chunk = "entry"
                   /\ Stop("refused") /\ UNCHANGED <<got, symlinks>>
       \/ /\ pipe.p2.buf = <<>> /\ pipe.p2.w = {}
          /\ dpc' = "links" /\ UNCHANGED <<pipe, got, symlinks>>
    /\ UNCHANGED <<archive, job, bpc, ar, pos, c2ended, life>>

extract_symlinks ==
    /\ dpc = "links"
    /\ \/ /\ dpc' = "drain" /\ UNCHANGED pipe
          /\ got' = [got EXCEPT !.data = @ \o symlinks]
       \/ /\ symlinks # <<>>
          /\ Stop("refused") /\ UNCHANGED got
    /\ symlinks' = <<>>
    /\ UNCHANGED <<archive, job, bpc, ar, pos, c2ended, life>>

\* fd_skip(p1[0], -1), close(), subproc_reap(dpkg-deb --fsys-tarfile).
drain ==
    /\ dpc = "drain"
    /\ \/ /\ pipe.p2.buf # <<>>
          /\ pipe' = Take("p2") /\ UNCHANGED dpc
       \/ /\ pipe.p2.buf = <<>> /\ pipe.p2.w = {}
          /\ Stop("reap")
    /\ UNCHANGED <<archive, job, bpc, ar, pos, c2ended, life, got, symlinks>>

reap_backend ==
    /\ dpc \in {"wait", "reap"} /\ life.B \in Ended
    /\ IF subproc_check(life.B, IF dpc = "reap" THEN SUBPROC_NOPIPE ELSE "")
         THEN /\ job' = Tail(job)
              /\ dpc' = IF Len(job) > 1 THEN "spawn" ELSE "accepted"
         ELSE dpc' = "refused" /\ UNCHANGED job
    /\ UNCHANGED <<archive, bpc, ar, pos, c2ended, pipe, life, got, symlinks>>

-----------------------------------------------------------------------------
DebInit ==
    /\ archive \in Archives
    /\ \E j \in Jobs : job = Calls(j)
    /\ dpc = "spawn" /\ bpc = "done" /\ ar = FirstMember
    /\ pos = 0 /\ c2ended = FALSE
    /\ pipe = [p1 |-> NoPipe, p2 |-> NoPipe]
    /\ life = [p \in Procs |-> "none"]
    /\ got = [h \in Halves |-> <<>>]
    /\ symlinks = <<>>

Backend == \/ extracthalf_magic \/ extracthalf_member \/ old_format
           \/ fork_paste \/ fork_decompress \/ fork_tar
           \/ extracthalf_reap \/ extracthalf_return
Reader == Spawn \/ tar_extractor \/ extract_symlinks \/ drain \/ reap_backend

DebNext == Backend \/ Reader \/ paste \/ decompress_filter \/ tar

DebFairness ==
    /\ WF_debvars(Backend) /\ WF_debvars(Reader)
    /\ WF_debvars(paste) /\ WF_debvars(decompress_filter) /\ WF_debvars(tar)

DebSpec == DebInit /\ [][DebNext]_debvars /\ DebFairness

-----------------------------------------------------------------------------
(* What it promises. *)

MembersNamed(n) == SelectSeq(Members, LAMBDA m : m.name = n)
Entries(m) == LET k == SelectInSeq(m.body, LAMBDA c : c = "eot")
                  upto == IF k = 0 THEN m.body ELSE SubSeq(m.body, 1, k - 1)
              IN SelectSeq(upto, LAMBDA c : c \in {"entry", "sym"})
Count(s, c) == Cardinality({i \in DOMAIN s : s[i] = c})

\* An archive that dpkg accepts was whole (extract.c:93, buffer.c:230,
\* unpack.c:1652-1661).  tar_extractor() takes an end of file between two
\* headers for the end of the archive, so that nothing was cut off is known
\* only from the exit statuses of paste, of the decompressor and of
\* dpkg-deb.  For the formats that have an end mark the mark was there; no
\* entry of the data member is missing; and there was exactly one control
\* member before it.
AcceptedIsWhole ==
    (dpc = "accepted" /\ archive.magic = "ar" /\ got.data # <<>>) =>
        LET data == Head(MembersNamed("data"))
            ctrl == MembersNamed("control")
        IN /\ Len(data.body) >= data.size
           /\ data.comp \in Compressed \ {"zst"} => "end" \in ToSet(data.body)
           /\ \A c \in {"entry", "sym"} :
                 Count(got.data, c) = Count(Entries(data), c)
           /\ got.control # <<>> =>
                 /\ Len(ctrl) = 1
                 /\ Len(ctrl[1].body) >= ctrl[1].size

\* However the pieces fail, nobody waits for ever (extract.c:311-403,
\* unpack.c:1625-1661): the reader stops early, a child dies, the archive is
\* short; every process ends and dpkg has its verdict.  This is about who
\* holds which end of which pipe when a child is forked.
Finished == dpc \in {"accepted", "refused"} /\ \A p \in Procs : life[p] # "run"
=============================================================================
