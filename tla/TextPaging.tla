----------------------------- MODULE TextPaging -----------------------------
(***************************************************************************)
(* Reading one output stream as text, page by page.  Four readers:         *)
(*   "cursor" and "offset"  output.readText, with the cursor of the last   *)
(*             page or with a byte offset of the caller's choice           *)
(*             (readUtf8OutputPage of src/core/exec-service.ts);           *)
(*   "ui"      /api/output of the test UI (alignUtf8TextChunk of           *)
(*             src/test-ui/server.ts);                                     *)
(*   "task"    task.tail, while the task still writes and its log drops    *)
(*             its oldest bytes (RollingByteLog of src/core/task-store.ts).*)
(* A byte is its role in UTF-8: a character of one byte, the first byte of *)
(* two, three or four, or a continuation.  Streams need not be valid.      *)
(* Offsets count from 0, as in the code; sequences from 1.                 *)
(***************************************************************************)
EXTENDS Integers, Sequences, FiniteSets

CONSTANTS MaxBytes,   \* length of a stream
          Limits,     \* page sizes that are asked for
          LogLimit    \* bytes a task's log retains

VARIABLES bytes,      \* everything the stream ever holds
          reader, limit,
          total,      \* bytes written so far
          startOffset,\* first byte the log still has
          terminal,   \* the writer has ended
          asked,      \* the offset the next request carries
          page        \* the last answer: [asked, at, to, ended, last]

vars == <<bytes, reader, limit, total, startOffset, terminal, asked, page>>

Continuation == "continuation"
Lengths == [one |-> 1, two |-> 2, three |-> 3, four |-> 4, continuation |-> 1]   \* utf8SequenceLength
Bytes == DOMAIN Lengths
Streams == UNION {[1..n -> Bytes] : n \in 0..MaxBytes}
Readers == {"cursor", "offset", "ui", "task"}
NoPage == [asked |-> 0, at |-> 0, to |-> 0, ended |-> FALSE, last |-> FALSE]
Least(a, b) == IF a < b THEN a ELSE b
Greatest(a, b) == IF a < b THEN b ELSE a

Init == /\ bytes \in Streams /\ reader \in Readers /\ limit \in Limits
        /\ startOffset = 0
        /\ total = IF reader = "task" THEN 0 ELSE Len(bytes)
        /\ terminal = (reader # "task")
        /\ asked \in IF reader = "offset" THEN 0..Len(bytes) ELSE {0}
        /\ page = NoPage

TypeOK == /\ bytes \in Streams /\ reader \in Readers /\ limit \in Limits
          /\ total \in 0..Len(bytes) /\ startOffset \in 0..total /\ terminal \in BOOLEAN
          /\ asked \in 0..Len(bytes)
          /\ page \in [asked : Nat, at : Nat, to : Nat, ended : BOOLEAN, last : BOOLEAN]

-----------------------------------------------------------------------------
(* UTF-8.                                                                  *)
\* completeUtf8PrefixLength: without the sequence that s ends in the middle of.
Trailing(s) == CHOOSE n \in 0..Least(3, Len(s)) :
                  /\ \A i \in Len(s) - n + 1 .. Len(s) : s[i] = Continuation
                  /\ n < Least(3, Len(s)) => s[Len(s) - n] # Continuation
\* Mutant: a sequence of four bytes is taken for one of three.
CompletePrefixShort(s) == LET lead == Len(s) - Trailing(s)
                          IN IF lead > 0 /\ Least(3, Lengths[s[lead]]) > Trailing(s) + 1 THEN lead - 1 ELSE Len(s)

CompletePrefix(s) == LET lead == Len(s) - Trailing(s)
                     IN IF lead > 0 /\ Lengths[s[lead]] > Trailing(s) + 1 THEN lead - 1 ELSE Len(s)

\* isValidUtf8: one sequence after the other, each complete.
WholeAt(s, i) == /\ s[i] # Continuation
                 /\ i + Lengths[s[i]] - 1 <= Len(s)
                 /\ \A j \in i + 1 .. i + Lengths[s[i]] - 1 : s[j] = Continuation
Valid(s) == \A i \in DOMAIN s : \E first \in 1..i : WholeAt(s, first) /\ i < first + Lengths[s[first]]

-----------------------------------------------------------------------------
(* The readers.  The bytes at..to-1 of the stream.                         *)
Part(at, to) == SubSeq(bytes, at + 1, to)
Read(at, n) == Least(at + n, total)   \* OutputStore.read: where its answer ends
Missing(s, complete) == Greatest(0, Lengths[s[complete + 1]] - (Len(s) - complete))
Cut(at, to) == at + CompletePrefix(Part(at, to))

\* alignUtf8ReadOffset: an offset inside a valid sequence, seen from three bytes before, is moved to its end.
AlignedAfter(offset) ==
    {lead + Lengths[bytes[lead + 1]] : lead \in
        {l \in Greatest(0, offset - 3) .. offset - 1 :
            /\ Lengths[bytes[l + 1]] > 1
            /\ offset < l + Lengths[bytes[l + 1]]
            /\ l + Lengths[bytes[l + 1]] <= Read(Greatest(0, offset - 3), 7)
            /\ Valid(Part(l, l + Lengths[bytes[l + 1]]))}}
AlignUtf8ReadOffset(offset) ==
    IF offset = total \/ bytes[offset + 1] # Continuation \/ AlignedAfter(offset) = {} THEN offset
    ELSE CHOOSE p \in AlignedAfter(offset) : TRUE   \* two valid sequences do not overlap

\* readUtf8OutputPage: a page that ends inside a sequence is extended by what the sequence lacks, and cut
\* only if that did not complete it.
ReadUtf8OutputPage(at) ==
    LET to == Read(at, limit)
        complete == CompletePrefix(Part(at, to))
        more == Read(to, Missing(Part(at, to), complete))
    IN IF to = total THEN to
       ELSE IF at + complete = to THEN to
       ELSE IF more = total THEN more ELSE Cut(at, more)

\* alignUtf8TextChunk: only a page without any whole character is extended, and only if that makes it valid.
AlignUtf8TextChunk(at) ==
    LET to == Read(at, limit)
        complete == CompletePrefix(Part(at, to))
        more == Read(to, Missing(Part(at, to), 0))
    IN IF to = total \/ at + complete = to THEN to
       ELSE IF complete > 0 THEN at + complete
       ELSE IF CompletePrefix(Part(at, more)) > 0 /\ Valid(Part(at, more)) THEN more ELSE to

\* RollingByteLog.read, of what the log retains; a running task may still complete its last sequence.
TaskRead(at) ==
    LET to == Read(at, limit)
        more == IF to > at /\ Cut(at, to) = at THEN Read(to, Missing(Part(at, to), 0)) ELSE to
    IN IF ~terminal \/ more < total THEN Cut(at, more) ELSE more

At == IF reader \in {"cursor", "offset"} THEN AlignUtf8ReadOffset(asked)
      ELSE IF reader = "ui" THEN asked
      ELSE Greatest(asked, startOffset)
To == IF reader \in {"cursor", "offset"} THEN ReadUtf8OutputPage(At)
      ELSE IF reader = "ui" THEN AlignUtf8TextChunk(At)
      ELSE TaskRead(At)

\* One request: the page and the offset or cursor to go on with, which none replaces after the last one.
NextPage == /\ ~page.last
            /\ page' = [asked |-> asked, at |-> At, to |-> To,
                        ended |-> terminal, last |-> terminal /\ To >= total]
            /\ asked' = To
            /\ page' # page
            /\ UNCHANGED <<bytes, reader, limit, total, startOffset, terminal>>

\* The task writes a chunk, and the log drops what is over its limit; or it has ended.
Writes == /\ reader = "task" /\ ~terminal
          /\ \E n \in total + 1 .. Len(bytes) : total' = n
          /\ startOffset' = Greatest(startOffset, total' - LogLimit)
          /\ UNCHANGED <<bytes, reader, limit, terminal, asked, page>>
Ends == /\ reader = "task" /\ ~terminal /\ total = Len(bytes)
        /\ terminal' = TRUE
        /\ UNCHANGED <<bytes, reader, limit, total, startOffset, asked, page>>

Next == NextPage \/ Writes \/ Ends

Spec == Init /\ [][Next]_vars

-----------------------------------------------------------------------------
(***************************************************************************)
(* Pages join: each begins where the last one ended, also in a stream that *)
(* is no text at all, unless the log has dropped the place or a caller     *)
(* asked for the middle of a character; every page moves on, but for  *)
(* one that waits for a running task; and the last one reaches the end.    *)
(***************************************************************************)
PagesJoin ==
    page # NoPage =>
        /\ page.at # page.asked => \/ reader = "task" /\ page.at <= startOffset
                                   \/ reader = "offset" /\ bytes[page.asked + 1] = Continuation
        /\ page.ended /\ ~page.last => page.to > page.at
        /\ page.last => page.to = total

(***************************************************************************)
(* No reader takes a character apart: in a valid stream a page that begins *)
(* where a character does ends where one does, whatever the page size, and *)
(* every page begins so unless the log has dropped a beginning.            *)
(***************************************************************************)
OnBoundary(p) == p = Len(bytes) \/ bytes[p + 1] # Continuation
CharactersWhole ==
    Valid(bytes) /\ page # NoPage =>
        /\ OnBoundary(page.at) => OnBoundary(page.to)
        /\ startOffset = 0 => OnBoundary(page.at)
=============================================================================
