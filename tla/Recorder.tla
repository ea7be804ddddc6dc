------------------------------ MODULE Recorder ------------------------------
(***************************************************************************)
(* internal/recorder/recorder.go: the bounded journal of received          *)
(* submit_sm PDUs of one virtual SMSC, shared (behind an RWMutex) by the   *)
(* session goroutines that Append and the HTTP handlers that Snapshot.     *)
(* Each operation holds the mutex throughout, so it is one step; what      *)
(* interleaves is sessions appending between the pages of a client that    *)
(* pages through GET .../received-pdus with since = last index + 1.        *)
(***************************************************************************)
EXTENDS Naturals, Sequences, FiniteSets, SequencesExt

CONSTANTS Capacity,    \* pdu_buffer_size
          Binds,       \* sessions appending to this recorder
          Addrs,       \* source and destination addresses
          AnyAddr,     \* the empty address of a filter
          NoRecord,    \* a slot of the ring never written
          MaxTotal,    \* bound: number of PDUs appended
          PageLimits,  \* the limit parameter of a request; 0 stands for absent or invalid
          maxPDUPage   \* most records of one HTTP answer (1000 in the code)

ASSUME RecorderBounds ==
  /\ Capacity \in Nat /\ MaxTotal \in Nat
  /\ PageLimits \subseteq Nat /\ maxPDUPage \in Nat \ {0}
  /\ AnyAddr \notin Addrs

VARIABLES ring,       \* Recorder.ring, indexed from 0 as in Go
          total,      \* Recorder.total: also the next index
          size,       \* Recorder.size
          clocks,     \* each session's per_bind_clock
          filter,     \* the filter the paging client repeats
          since,      \* the paging client's cursor
          received    \* what the paging client was answered, all pages in order

vars == <<ring, total, size, clocks, filter, since, received>>
recorderVars == <<ring, total, size, clocks>>
clientVars == <<filter, since, received>>

\* New: capacity clamped to at least one slot.
capN == IF Capacity < 1 THEN 1 ELSE Capacity

Body == [src : Addrs, dst : Addrs, bind : Binds, clock : Nat]
Record == [index : Nat, body : Body]
Filter == [src : Addrs \cup {AnyAddr}, dst : Addrs \cup {AnyAddr}, limit : PageLimits]

Init ==
  /\ ring = [i \in 0..(capN - 1) |-> NoRecord]
  /\ total = 0
  /\ size = 0
  /\ clocks = [b \in Binds |-> 0]
  /\ filter \in Filter
  /\ since = 0
  /\ received = <<>>

\* Session b's PDU from s to d, at the tick it just advanced to, goes into slot with index i,
\* and n records are then retained.
Store(b, s, d, slot, i, n) ==
  /\ ring' = [ring EXCEPT ![slot] =
       [index |-> i, body |-> [src |-> s, dst |-> d, bind |-> b, clock |-> clocks[b] + 1]]]
  /\ total' = total + 1
  /\ size' = n
  /\ clocks' = [clocks EXCEPT ![b] = @ + 1]
  /\ UNCHANGED clientVars

\* Definitions marked "faulty variant" are the plausible bugs the properties below must
\* notice; the specification never uses them.
\* Faulty variant: the index is the slot, so it is reused once the ring wraps.
AppendSlotIndex(b, s, d) ==
  Store(b, s, d, total % capN, total % capN, IF size < capN THEN size + 1 ELSE size)

\* Append. The mutex makes the choice of the index and the write of the slot one step.
AppendPDU(b, s, d) ==
  Store(b, s, d, total % capN, total, IF size < capN THEN size + 1 ELSE size)

-----------------------------------------------------------------------------
\* The index of the oldest record still in the ring.
oldest == IF total > capN THEN total - capN ELSE 0

Matches(rec, f) ==
  /\ f.src = AnyAddr \/ rec.body.src = f.src
  /\ f.dst = AnyAddr \/ rec.body.dst = f.dst

\* Faulty variant: the scan stops at the limit before it filters.
SnapshotLimitFirst(f, from) ==
  LET start == IF from > oldest THEN from ELSE oldest
      scan == [k \in 1..(IF start < total THEN total - start ELSE 0) |-> ring[(start + k - 1) % capN]]
      page == IF f.limit > 0 /\ Len(scan) > f.limit THEN SubSeq(scan, 1, f.limit) ELSE scan
  IN  SelectSeq(page, LAMBDA rec : Matches(rec, f))

\* One turn of Snapshot's loop; a full answer stays as it is, which is the break.
Full(out, f) == f.limit > 0 /\ Len(out) = f.limit
Scan(out, rec, f) == IF Matches(rec, f) /\ ~Full(out, f) THEN Append(out, rec) ELSE out

\* Snapshot: scan the ring from max(oldest, Since) to total, keep the matching records, stop
\* at Limit when it is positive.
Snapshot(f, from) ==
  LET start == IF from > oldest THEN from ELSE oldest
      n == IF start < total THEN total - start ELSE 0
      out[k \in 0..n] == IF k = 0 THEN <<>> ELSE Scan(out[k - 1], ring[(start + k - 1) % capN], f)
  IN  out[n]

\* The client is answered a page and moves its cursor to next.
TakePage(page, next) ==
  /\ page # <<>>
  /\ received' = received \o page
  /\ since' = next
  /\ UNCHANGED <<filter, recorderVars>>

\* pageLimit, handleReceivedPDUs: what Snapshot answers to the client's next request.
pageLimit(asked) == IF asked = 0 \/ asked > maxPDUPage THEN maxPDUPage ELSE asked
ReceivedPDUs == Snapshot([filter EXCEPT !.limit = pageLimit(filter.limit)], since)

\* Faulty variant: the cursor advances by the page length, not past the last index.
NextPageByCount == TakePage(ReceivedPDUs, since + Len(ReceivedPDUs))

\* GET .../received-pdus with since = last index + 1.
NextPage == TakePage(ReceivedPDUs, Last(ReceivedPDUs).index + 1)

Next ==
  \/ \E b \in Binds, s, d \in Addrs : total < MaxTotal /\ AppendPDU(b, s, d)
  \/ NextPage

Spec == Init /\ [][Next]_vars
-----------------------------------------------------------------------------
\* The records a page should hold, stated without the ring or the scan: the matching
\* retained records from the cursor on, in index order, cut after the first limit of them.
IsPage(t, f, from) ==
  LET wanted == {r \in ToSet([k \in 1..size |-> ring[(oldest + k - 1) % capN]]) :
                   r.index >= from /\ Matches(r, f)}
      rank(r) == Cardinality({q \in wanted : q.index < r.index})
      kept == {r \in wanted : f.limit = 0 \/ rank(r) < f.limit}
  IN  /\ ToSet(t) = kept
      /\ \A i, j \in 1..Len(t) : i < j => t[i].index < t[j].index

\* Whatever was appended, and however often the ring has wrapped, a request without since is
\* answered with exactly the oldest matching records still retained, in order and up to the
\* limit ("Since 0 starts from the oldest retained record", recorder.go:32-34). What a cursor
\* adds to a request is PagingIsExact's.
SnapshotIsPage == \A f \in Filter : IsPage(Snapshot(f, 0), f, 0)

\* The cursor, last index + 1 (recorder.go:38), is stable: however many PDUs arrive between two
\* pages, the client never gets a record twice nor out of order (recorder.go:15-17), and the only
\* ones it misses are those the ring had overwritten before it asked.
PagingIsExact ==
  /\ \A i, j \in 1..Len(received) : i < j => received[i].index < received[j].index
  /\ \A i \in oldest..(total - 1) :
       i < since /\ Matches(ring[i % capN], filter)
         => \E k \in 1..Len(received) : received[k] = ring[i % capN]

Window == INSTANCE RecorderWindow
            WITH window <- [k \in 1..size |-> ring[(oldest + k - 1) % capN]],
                 next <- total, Cap <- capN,
                 Payloads <- [src : Addrs, dst : Addrs, bind : Binds, clock : 1..MaxTotal]

\* The ring buffer implements the sliding window of the last records.
ImplementsWindow == Window!Spec
=============================================================================
