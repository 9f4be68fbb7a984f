------------------------------ MODULE LogReader ------------------------------
(***************************************************************************)
(* BoundedLogReader: one thread tails several log files in passes that     *)
(* take at most MaxLines lines and MaxBytes bytes, while the programs that *)
(* write the files append, rotate and truncate them.  Every call that      *)
(* touches a file (open with fstat, readline) is a step.  A byte of a line *)
(* is the stamp of the place and the generation it was written to, so that *)
(* a line tells which bytes it is made of.                                 *)
(***************************************************************************)
EXTENDS Naturals, Sequences, FiniteSets, FiniteSetsExt, SequencesExt

CONSTANTS
  PathCount,      \* files configured
  SizeLimit,      \* size_limit: bytes of a line, newline included
  MaxLines,       \* max_lines of a pass
  MaxBytes,       \* max_bytes of a pass
  MaxWritten,     \* bound: bytes written to all the files
  MaxRotations    \* bound: files replaced by a new one

Paths == 0..(PathCount - 1)
Inodes == 1..(PathCount + MaxRotations)
None == 0  \* no inode

ASSUME ReaderAssumption ==
  /\ PathCount \in Nat \ {0}
  /\ SizeLimit \in Nat \ {0} /\ MaxLines \in Nat \ {0} /\ MaxBytes \in Nat \ {0}
  /\ MaxWritten \in Nat /\ MaxRotations \in Nat

Newline == 0

VARIABLES
  files,     \* the content of every inode
  link,      \* the inode a path names
  cut,       \* bytes truncated away from each inode
  state,     \* self._state
  nextPath,  \* self._next_path
  pass,      \* the local variables of read_incremental
  taken,     \* history: the lines taken from each inode
  skipped    \* history: finished passes since each path was last visited

disk   == <<files, link, cut>>
reader == <<state, nextPath, pass, taken, skipped>>
vars   == <<disk, reader>>

Written(i) == cut[i] + Len(files[i])
Stamp(i) == Written(i) + 1
Bytes == Seq(Nat)
Line == [inode : Inodes, text : Bytes]
Fresh == [inode |-> None, offset |-> 0, partial |-> <<>>, discard |-> FALSE]
Resting == [phase |-> "idle", start |-> 0, index |-> 0, path |-> 0, inode |-> None,
            results |-> <<>>, bytesLeft |-> 0]

Init ==
  /\ files = [i \in Inodes |-> <<>>]
  /\ link = [p \in Paths |-> p + 1]
  /\ cut = [i \in Inodes |-> 0]
  /\ state = [p \in Paths |-> Fresh]
  /\ nextPath = 0
  /\ pass = Resting
  /\ taken = [i \in Inodes |-> <<>>]
  /\ skipped = [p \in Paths |-> 0]

-----------------------------------------------------------------------------
\* The programs that write the logs.

Write(p) ==
  /\ MapThenSumSet(Written, Inodes) < MaxWritten
  /\ \E b \in {Newline, Stamp(link[p])} :
       files' = [files EXCEPT ![link[p]] = Append(@, b)]
  /\ UNCHANGED <<link, cut, reader>>

Rotate(p) ==
  /\ \E i \in Inodes :
       /\ i = Max({link[q] : q \in Paths}) + 1
       /\ link' = [link EXCEPT ![p] = i]
  /\ UNCHANGED <<files, cut, reader>>

Truncate(p) ==
  /\ files[link[p]] # <<>>
  /\ files' = [files EXCEPT ![link[p]] = <<>>]
  /\ cut' = [cut EXCEPT ![link[p]] = Written(link[p])]
  /\ UNCHANGED <<link, reader>>

-----------------------------------------------------------------------------
\* read_incremental.

Spent == Len(pass.results) >= MaxLines \/ pass.bytesLeft <= 0

BeginPass ==
  /\ pass.phase = "idle"
  /\ pass' = [Resting EXCEPT !.phase = "visit", !.start = nextPath, !.bytesLeft = MaxBytes]
  /\ UNCHANGED <<disk, state, nextPath, taken, skipped>>

Current == (pass.start + pass.index) % PathCount

\* Mutated: every pass starts with the first file.
Advance_Never == UNCHANGED nextPath

\* Mutated: the index runs past the last file.
Advance_Unwrapped == nextPath' = Current + 1

Advance == nextPath' = (Current + 1) % PathCount

Replaced(s, i) == s.inode # i \/ Len(files[i]) < s.offset

\* Open the next file; start over when it is another one or has shrunk.
Visit ==
  /\ pass.phase = "visit" /\ pass.index < PathCount /\ ~Spent
  /\ LET p == Current  i == link[Current] IN
       /\ state' = [state EXCEPT ![p] = IF Replaced(@, i) THEN [Fresh EXCEPT !.inode = i] ELSE @]
       /\ pass' = [pass EXCEPT !.phase = "read", !.path = p, !.inode = i]
  /\ Advance
  /\ UNCHANGED <<disk, taken, skipped>>

\* OSError, or not a regular file: on to the next.
VisitFails ==
  /\ pass.phase = "visit" /\ pass.index < PathCount /\ ~Spent
  /\ pass' = [pass EXCEPT !.index = @ + 1]
  /\ Advance
  /\ UNCHANGED <<disk, state, taken, skipped>>

\* readline(limit) at an offset: through the next newline, at most limit bytes.
ReadLine(content, offset, limit) ==
  LET ends  == {k \in (offset + 1)..Len(content) : content[k] = Newline}
      stops == ends \cup {Len(content), offset + limit} IN
    SubSeq(content, offset + 1, Min(stops))

Complete(chunk) == chunk # <<>> /\ Last(chunk) = Newline

\* Mutated: what follows the discarded part of a line is taken for a line.
Feed_NoDiscard(s, chunk) ==
  LET combined == s.partial \o chunk IN
    CASE Len(combined) > SizeLimit -> [lines |-> <<>>, partial |-> <<>>, discard |-> FALSE]
      [] Len(combined) <= SizeLimit /\ Complete(chunk) ->
           [lines |-> <<Front(combined)>>, partial |-> <<>>, discard |-> FALSE]
      [] OTHER -> [lines |-> <<>>, partial |-> combined, discard |-> FALSE]

\* What one chunk makes of the line under way: a line, more of it, or nothing.
Feed(s, chunk) ==
  LET combined == s.partial \o chunk IN
    CASE s.discard -> [lines |-> <<>>, partial |-> s.partial, discard |-> ~Complete(chunk)]
      [] ~s.discard /\ Len(combined) > SizeLimit ->
           [lines |-> <<>>, partial |-> <<>>, discard |-> ~Complete(chunk)]
      [] OTHER ->
           IF Complete(chunk) THEN [lines |-> <<Front(combined)>>, partial |-> <<>>, discard |-> FALSE]
                              ELSE [lines |-> <<>>, partial |-> combined, discard |-> FALSE]

Chunk ==
  ReadLine(files[pass.inode], state[pass.path].offset, Min({SizeLimit, pass.bytesLeft}))

ReadChunk ==
  /\ pass.phase = "read" /\ ~Spent /\ Chunk # <<>>
  /\ LET p == pass.path  fed == Feed(state[p], Chunk) IN
       /\ state' = [state EXCEPT ![p].offset  = @ + Len(Chunk),
                                 ![p].partial = fed.partial,
                                 ![p].discard = fed.discard]
       /\ taken' = [taken EXCEPT ![pass.inode] = @ \o fed.lines]
       /\ pass' = [pass EXCEPT !.bytesLeft = @ - Len(Chunk),
                               !.results = @ \o [k \in DOMAIN fed.lines |->
                                                   [inode |-> pass.inode, text |-> fed.lines[k]]]]
  /\ UNCHANGED <<disk, nextPath, skipped>>

NextFile ==
  /\ pass' = [pass EXCEPT !.phase = "visit", !.index = @ + 1]
  /\ UNCHANGED <<disk, state, nextPath, taken, skipped>>

LeaveFile ==
  /\ pass.phase = "read"
  /\ Spent \/ Chunk = <<>>
  /\ NextFile

\* OSError of readline: what the file has left is not read in this pass.
ReadFails ==
  /\ pass.phase = "read" /\ ~Spent
  /\ NextFile

\* Return the results.
EndPass ==
  /\ pass.phase = "visit"
  /\ Spent \/ pass.index = PathCount
  /\ LET visited == {(pass.start + k) % PathCount : k \in 0..(pass.index - 1)} IN
       skipped' = [p \in Paths |-> IF p \in visited THEN 0 ELSE skipped[p] + 1]
  /\ pass' = Resting
  /\ UNCHANGED <<disk, state, nextPath, taken>>

Logging == \E p \in Paths : Write(p) \/ Rotate(p) \/ Truncate(p)
Reading == Visit \/ VisitFails \/ ReadChunk \/ ReadFails \/ LeaveFile

Next == Logging \/ BeginPass \/ Reading \/ EndPass

Spec == Init /\ [][Next]_vars

-----------------------------------------------------------------------------
\* Properties.

\* The items at the places kept, in order.
Picked(kept, items) ==
  LET upTo[k \in 0..Len(items)] ==
        IF k = 0 THEN <<>>
        ELSE IF k \in kept THEN Append(upTo[k - 1], items[k]) ELSE upTo[k - 1] IN
    upTo[Len(items)]

\* Where the line begins that the k-th byte of a text belongs to.
LineBegin(text, k) == Max({0} \cup {j \in 1..(k - 1) : text[j] = Newline}) + 1

\* The lines of a text that a reader with this size limit can deliver: those
\* between two newlines that, with their own newline, are not too long.
Lines(text) ==
  Picked({k \in DOMAIN text : text[k] = Newline /\ k + 1 - LineBegin(text, k) <= SizeLimit},
         [k \in 1..Len(text) |-> SubSeq(text, LineBegin(text, k), k - 1)])

\* The types, and the memory a reader holds: no more than one line of legal size
\* of each file, and of a pass no more lines than it may return.
TypeOK ==
  /\ files \in [Inodes -> Bytes] /\ link \in [Paths -> Inodes] /\ cut \in [Inodes -> Nat]
  /\ state \in [Paths -> [inode : Inodes \cup {None}, offset : Nat, partial : Bytes, discard : BOOLEAN]]
  /\ nextPath \in Paths
  /\ pass \in [phase : {"idle", "visit", "read"}, start : Paths, index : 0..PathCount,
               path : Paths, inode : Inodes \cup {None}, results : Seq(Line), bytesLeft : Nat]
  /\ taken \in [Inodes -> Seq(Bytes)] /\ skipped \in [Paths -> Nat]
  /\ Len(pass.results) <= MaxLines /\ \A p \in Paths : Len(state[p].partial) <= SizeLimit

\* Of a file that was never cut, every line read so far was taken exactly once,
\* whole and in order, however budgets, appends and rotations split the reading,
\* and nothing was taken from the middle of a line that is too long.
EveryLineOnce ==
  \A p \in Paths :
    LET i == state[p].inode IN
      (i # None /\ cut[i] = 0) =>
        taken[i] = Lines(SubSeq(files[i], 1, state[p].offset))

\* A busy file does not starve another: each is visited at least once in any
\* PathCount passes.
NoPathStarves == \A p \in Paths : skipped[p] < PathCount
=============================================================================
