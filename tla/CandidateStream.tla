---------------------------- MODULE CandidateStream ----------------------------
(* The archive's bytes on their way to the caller: the candidate reader     *)
(* pipes the provider's body into a stream of fixed length, the ingress     *)
(* pipes that one into another, and the caller reads the last.  A pipe      *)
(* (pipeBoundedBytes) counts bytes and chunks, races every read, write and  *)
(* close against a deadline, and on any failure cancels what it reads from  *)
(* and aborts what it writes to.  The provider, either pipe and the caller  *)
(* may stall or fail at any moment.  That a FixedLengthStream itself checks *)
(* its length is not relied on.                                             *)
EXTENDS Naturals

CONSTANTS Size,      \* the archive's length: artifact, observation and header
          MaxChunks, \* how many chunks a pipe takes: 100000
          MaxChunk   \* bound on the bytes of one chunk

ASSUME StreamAssumption == Size \in Nat \ {0} /\ MaxChunks \in Nat /\ MaxChunk \in Nat

\* The provider's body, the stream between the Workers, the caller's body.
Streams == 0..2
\* A pipe reads the stream before it and writes its own.
Pipes == 1..2

VARIABLES offer,  \* per stream, the chunk on offer: it is handed over, not kept
          ending, \* per stream, whether its writer closed or broke it
          taken,  \* per stream, the bytes its reader took
          pump,   \* per pipe, what it awaits
          total, chunks, \* per pipe, its counts
          caller,
          sent    \* the bytes the provider offered

streamVars == <<offer, ending, taken, pump, total, chunks, caller, sent>>

Chunk == 0..MaxChunk
NoChunk == MaxChunk + 1 \* a chunk may be empty
Ending == {"OPEN", "CLOSED", "ERROR"}
Pump == {"READ", "WRITE", "CLOSE", "DONE", "FAILED"}

StreamInit ==
  /\ offer = [s \in Streams |-> NoChunk] /\ ending = [s \in Streams |-> "OPEN"]
  /\ taken = [s \in Streams |-> 0]
  /\ pump = [p \in Pipes |-> "READ"]
  /\ total = [p \in Pipes |-> 0] /\ chunks = [p \in Pipes |-> 0]
  /\ caller = "READING" /\ sent = 0

\* A reader is handed what is on offer, unless the stream broke, and learns
\* of the end after the last chunk.
Offered(s) == offer[s] # NoChunk /\ ending[s] # "ERROR"
AtEnd(s) == offer[s] = NoChunk /\ ending[s] = "CLOSED"
Broken(streams) == [s \in Streams |-> IF s \in streams THEN "ERROR" ELSE ending[s]]

----------------------------------------------------------------------------
(* The provider: its body may be shorter or longer than announced.          *)

Offers(n) ==
  /\ ending[0] = "OPEN" /\ offer[0] = NoChunk /\ sent <= Size
  /\ offer' = [offer EXCEPT ![0] = n] /\ sent' = sent + n
  /\ UNCHANGED <<ending, taken, pump, total, chunks, caller>>

ProviderEnds ==
  /\ ending[0] = "OPEN"
  /\ \E e \in {"CLOSED", "ERROR"} : ending' = [ending EXCEPT ![0] = e]
  /\ UNCHANGED <<offer, taken, pump, total, chunks, caller, sent>>

----------------------------------------------------------------------------
(* A pipe. *)

Awaits(p, what) == pump' = [pump EXCEPT ![p] = what]

\* What the failure of a pipe breaks: the reader is cancelled, the writer
\* aborted.
BrokenBy(p) == {p - 1, p}

\* The counts are compared before the chunk is passed on.
Passes(p, n) == n # 0 /\ chunks[p] < MaxChunks /\ total[p] + n <= Size

PumpReads(p) ==
  /\ pump[p] = "READ" /\ Offered(p - 1)
  /\ LET n == offer[p - 1] IN
       /\ taken' = [taken EXCEPT ![p - 1] = @ + n]
       /\ total' = [total EXCEPT ![p] = @ + n]
       /\ chunks' = [chunks EXCEPT ![p] = @ + 1]
       /\ IF Passes(p, n)
          THEN /\ offer' = [offer EXCEPT ![p - 1] = NoChunk, ![p] = n]
               /\ Awaits(p, "WRITE") /\ UNCHANGED ending
          ELSE /\ offer' = [offer EXCEPT ![p - 1] = NoChunk]
               /\ Awaits(p, "FAILED") /\ ending' = Broken(BrokenBy(p))
  /\ UNCHANGED <<caller, sent>>

\* A write is done when the chunk is taken.
PumpWrites(p) ==
  /\ pump[p] = "WRITE" /\ offer[p] = NoChunk
  /\ Awaits(p, "READ")
  /\ UNCHANGED <<offer, ending, taken, total, chunks, caller, sent>>

\* A mutant: only too many bytes are refused.
NotOver(p) == total[p] <= Size
Whole(p) == total[p] = Size

PumpCloses(p) ==
  /\ pump[p] = "READ" /\ AtEnd(p - 1)
  /\ IF Whole(p) /\ ending[p] # "ERROR"
     THEN Awaits(p, "CLOSE") /\ ending' = [ending EXCEPT ![p] = "CLOSED"]
     ELSE Awaits(p, "FAILED") /\ ending' = Broken(BrokenBy(p))
  /\ UNCHANGED <<offer, taken, total, chunks, caller, sent>>

\* Its reader knows of the end.
EndTaken(s) == IF s = 2 THEN caller = "ENDED" ELSE pump[s + 1] \in {"CLOSE", "DONE"}

PumpEnds(p) ==
  /\ pump[p] = "CLOSE" /\ EndTaken(p)
  /\ Awaits(p, "DONE")
  /\ UNCHANGED <<offer, ending, taken, total, chunks, caller, sent>>

Stopped(p) == pump[p] \in {"DONE", "FAILED"}
\* A deadline passes, or what is read from or written to is broken.
Deadline(p) == pump[p] \in {"READ", "WRITE", "CLOSE"}

PumpFails(p) ==
  /\ Deadline(p)
  /\ Awaits(p, "FAILED") /\ ending' = Broken(BrokenBy(p))
  /\ UNCHANGED <<offer, taken, total, chunks, caller, sent>>

PumpStep(p) ==
  PumpReads(p) \/ PumpWrites(p) \/ PumpCloses(p) \/ PumpEnds(p) \/ PumpFails(p)

----------------------------------------------------------------------------
(* The caller, who may read on, stop reading or go away. *)

CallerTakes ==
  /\ caller = "READING" /\ Offered(2)
  /\ taken' = [taken EXCEPT ![2] = @ + offer[2]]
  /\ offer' = [offer EXCEPT ![2] = NoChunk]
  /\ UNCHANGED <<ending, pump, total, chunks, caller, sent>>

CallerEnds ==
  /\ caller = "READING" /\ AtEnd(2) /\ caller' = "ENDED"
  /\ UNCHANGED <<offer, ending, taken, pump, total, chunks, sent>>

CallerLeaves ==
  /\ caller = "READING" /\ caller' = "LEFT"
  /\ ending' = Broken({2})
  /\ UNCHANGED <<offer, taken, pump, total, chunks, sent>>

StreamNext ==
  \/ (\E n \in Chunk : Offers(n)) \/ ProviderEnds
  \/ \E p \in Pipes : PumpStep(p)
  \/ CallerTakes \/ CallerEnds \/ CallerLeaves

StreamSpec == StreamInit /\ [][StreamNext]_streamVars

----------------------------------------------------------------------------

\* The types of the state.
StreamTypeOK ==
  /\ offer \in [Streams -> 0..NoChunk] /\ ending \in [Streams -> Ending]
  /\ taken \in [Streams -> Nat]
  /\ pump \in [Pipes -> Pump] /\ total \in [Pipes -> Nat] /\ chunks \in [Pipes -> Nat]
  /\ caller \in {"READING", "ENDED", "LEFT"} /\ sent \in Nat

\* No consumer can accept a truncated prefix (bounded.ts:129): a caller who
\* sees the end has every byte of a body of exactly the announced length,
\* whatever stalled or broke on the way, and nobody is handed more.
EndMeansWhole ==
  /\ taken[2] <= Size
  /\ caller = "ENDED" => taken[2] = Size /\ sent = Size

\* A pipe that stopped leaves neither of its streams open: the provider's
\* connection is given back and the next reader learns of the failure
\* (bounded.ts:188).
NothingLeftOpen ==
  \A p \in Pipes : Stopped(p) => ending[p - 1] # "OPEN" /\ ending[p] # "OPEN"
=============================================================================
