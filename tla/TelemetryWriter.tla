-------------------------- MODULE TelemetryWriter --------------------------
(***************************************************************************)
(* The telemetry writer (apps/ingest/src/writer.ts) and the shutdown of    *)
(* the process around it (server.ts).  Readings are buffered, a flush      *)
(* takes the whole buffer and writes it in one transaction per tenant, and *)
(* a failure puts everything back.                                         *)
(*                                                                         *)
(* A reading is its number in the order of acceptance; `accepted' says     *)
(* which (sensor, time) key it is a value for.  Two readings of one key    *)
(* are a value and its correction.                                         *)
(***************************************************************************)
EXTENDS Naturals, Sequences, Functions

CONSTANTS
    Tenants,
    Sensors,
    TenantOf,     \* the tenant of each sensor
    Times,        \* timestamps of readings
    BufferMax,    \* INGEST_BUFFER_MAX_ROWS
    FlushMax,     \* INGEST_FLUSH_MAX_ROWS
    MaxPush,      \* bound on the readings of one enqueue
    MaxReadings,  \* bound on the readings accepted
    MaxWriteFaults     \* bound on transactions that fail

ASSUME WriterAssumption ==
    /\ TenantOf \in [Sensors -> Tenants]
    /\ BufferMax \in Nat \ {0} /\ FlushMax \in Nat \ {0}
    /\ MaxPush \in Nat /\ MaxReadings \in Nat /\ MaxWriteFaults \in Nat

Keys == Sensors \X Times

VARIABLES
    accepted,      \* the key of every reading, in order of acceptance
    buffer,        \* #buffer
    touched,       \* #touched
    flush,         \* the flush under way: its batch, and what is to be done
    stored,        \* the telemetry table: the reading that each key holds
    seen,          \* the sensors whose last_seen_at was set
    dropped,       \* the readings shed (the code only counts them)
    process,       \* where the process is in its life
    writeFaults

writervars == <<accepted, buffer, touched, flush, stored, seen, dropped, process,
          writeFaults>>

-----------------------------------------------------------------------------
Key(r) == accepted[r]

NoFlush == [at |-> "none", batch |-> <<>>, touched |-> {}, tenants |-> {}]

(* Overflow sheds the oldest readings.                                     *)
Shed(s) == IF Len(s) <= BufferMax THEN s
           ELSE SubSeq(s, Len(s) - BufferMax + 1, Len(s))

(* Broken variant: the first reading of a key counts.                      *)
FirstWins(batch) ==
    {batch[i] : i \in {j \in DOMAIN batch :
        \A k \in DOMAIN batch : k < j => Key(batch[k]) # Key(batch[j])}}

(* dedupe: of the readings of a key in the batch the last one counts.      *)
dedupe(batch) ==
    {batch[i] : i \in {j \in DOMAIN batch :
        \A k \in DOMAIN batch : k > j => Key(batch[k]) # Key(batch[j])}}

(* flush() up to its first await: swap the buffer and start on it.         *)
StartFlush(buf, tch, acc) ==
    /\ flush' = [at |-> "inserting", batch |-> buf, touched |-> tch,
                 tenants |-> {TenantOf[acc[r][1]] : r \in Range(buf)}]
    /\ buffer' = <<>>
    /\ touched' = {}

(* enqueue(): push, touch, shed, and flush when FlushMax is reached.       *)
enqueue(keys) ==
    /\ process \in {"running", "stopping"}
    /\ Len(accepted) + Len(keys) <= MaxReadings
    /\ LET acc == accepted \o keys
           all == buffer \o [i \in 1..Len(keys) |-> Len(accepted) + i]
           buf == Shed(all)
           tch == touched \cup {keys[i][1] : i \in DOMAIN keys}
       IN  /\ accepted' = acc
           /\ dropped' = dropped \cup (Range(all) \ Range(buf))
           /\ IF Len(buf) >= FlushMax /\ flush = NoFlush
              THEN StartFlush(buf, tch, acc)
              ELSE buffer' = buf /\ touched' = tch /\ UNCHANGED flush
    /\ UNCHANGED <<stored, seen, process, writeFaults>>

(* The timer calls flush().                                                *)
TimedFlush ==
    /\ process = "running"
    /\ flush = NoFlush /\ buffer # <<>>
    /\ StartFlush(buffer, touched, accepted)
    /\ UNCHANGED <<accepted, stored, seen, dropped, process, writeFaults>>

(* insertReadings in one tenant's transaction: ON CONFLICT DO NOTHING.     *)
insertReadings(t) ==
    /\ flush.at = "inserting" /\ t \in flush.tenants
    /\ stored' = [k \in Keys |->
         LET new == {r \in dedupe(flush.batch) : Key(r) = k /\ TenantOf[k[1]] = t}
         IN  IF stored[k] = 0 /\ new # {} THEN CHOOSE r \in new : TRUE
             ELSE stored[k]]
    /\ LET left == flush.tenants \ {t}
       IN  flush' = IF left # {} THEN [flush EXCEPT !.tenants = left]
                    ELSE [flush EXCEPT !.at = "marking",
                            !.tenants = {TenantOf[s] : s \in flush.touched}]
    /\ UNCHANGED <<accepted, buffer, touched, seen, dropped, writeFaults>>

(* Broken variant: the buffer is cleared after the write, and what arrived *)
(* meanwhile goes with it.                                                 *)
ClearAfterwards ==
    /\ flush' = NoFlush
    /\ buffer' = <<>>

(* The end of a flush that succeeded.                                      *)
FlushEnds ==
    /\ flush' = NoFlush
    /\ UNCHANGED buffer

(* #markSeen, a transaction per tenant; after the last the flush is over.  *)
markSeen(t) ==
    /\ flush.at = "marking" /\ t \in flush.tenants
    /\ seen' = seen \cup {s \in flush.touched : TenantOf[s] = t}
    /\ IF flush.tenants = {t} THEN FlushEnds
       ELSE /\ flush' = [flush EXCEPT !.tenants = @ \ {t}]
            /\ UNCHANGED buffer
    /\ UNCHANGED <<accepted, touched, stored, dropped, writeFaults>>

(* The failed batch goes back in front of what arrived since.              *)
Requeued == flush.batch \o buffer

(* Its sensors are to be marked again, with those that reported since.     *)
Retouched == touched \cup flush.touched

AfterFailure == NoFlush

(* A transaction of the flush fails: its catch, and its finally.           *)
FlushFails ==
    /\ flush.at \in {"inserting", "marking"}
    /\ process \in {"running", "stopping", "closing"}
    /\ writeFaults < MaxWriteFaults
    /\ writeFaults' = writeFaults + 1
    /\ buffer' = Shed(Requeued)
    /\ dropped' = dropped \cup (Range(Requeued) \ Range(Shed(Requeued)))
    /\ touched' = Retouched
    /\ flush' = AfterFailure
    /\ UNCHANGED <<accepted, stored, seen, process>>

-----------------------------------------------------------------------------
(* shutdown(): pipeline.stop() clears the timer and flushes once, which    *)
(* does nothing while a flush runs ...                                     *)
stop ==
    /\ process = "running"
    /\ IF flush = NoFlush /\ buffer # <<>>
       THEN /\ process' = "stopping"
            /\ StartFlush(buffer, touched, accepted)
       ELSE /\ process' = "closing"
            /\ UNCHANGED <<buffer, touched, flush>>
    /\ UNCHANGED <<accepted, stored, seen, dropped, writeFaults>>

(* ... and returns when that flush is over ...                             *)
Stopped ==
    /\ process = "stopping" /\ flush = NoFlush
    /\ process' = "closing"
    /\ UNCHANGED <<accepted, buffer, touched, flush, stored, seen, dropped,
                   writeFaults>>

(* ... then the pool closes, which waits for the transaction under way but *)
(* starts no other, and the process exits.                                 *)
Exit ==
    /\ \/ process = "closed"
       \/ process = "closing" /\ flush = NoFlush
    /\ process' = "exited"
    /\ UNCHANGED <<accepted, buffer, touched, flush, stored, seen, dropped,
                   writeFaults>>

-----------------------------------------------------------------------------
WriterInit ==
    /\ accepted = <<>>
    /\ buffer = <<>> /\ touched = {}
    /\ flush = NoFlush
    /\ stored = [k \in Keys |-> 0]
    /\ seen = {} /\ dropped = {}
    /\ process = "running"
    /\ writeFaults = 0

(* The next transaction of the flush under way.                            *)
Write ==
    /\ process \in {"running", "stopping", "closing"}
    /\ process' = IF process = "closing" THEN "closed" ELSE process
    /\ \E t \in Tenants : insertReadings(t) \/ markSeen(t)

WriterNext ==
    \/ \E n \in 1..MaxPush : \E keys \in [1..n -> Keys] : enqueue(keys)
    \/ TimedFlush
    \/ Write
    \/ FlushFails
    \/ stop \/ Stopped \/ Exit

WriterSpec == WriterInit /\ [][WriterNext]_writervars

(* The timer keeps firing, transactions end, a shutdown goes on.           *)
WriterFairness == WF_writervars(TimedFlush) /\ WF_writervars(Write) /\ WF_writervars(Stopped) /\ WF_writervars(Exit)

WriterFairSpec == WriterSpec /\ WriterFairness

-----------------------------------------------------------------------------
Readings == 1..Len(accepted)

(* Every variable has its type, and a flush under way always has a         *)
(* transaction to come: #flushing is never left set.                       *)
WriterTypeOK ==
    /\ accepted \in Seq(Keys)
    /\ buffer \in Seq(Readings) /\ touched \subseteq Sensors
    /\ flush.at \in {"none", "inserting", "marking"}
    /\ flush.batch \in Seq(Readings)
    /\ flush.touched \subseteq Sensors /\ flush.tenants \subseteq Tenants
    /\ (flush.at = "none") <=> (flush = NoFlush)
    /\ flush.at # "none" => flush.batch # <<>> /\ flush.tenants # {}
    /\ stored \in [Keys -> 0..Len(accepted)]
    /\ seen \subseteq Sensors /\ dropped \subseteq Readings
    /\ process \in {"running", "stopping", "closing", "closed", "exited"}
    /\ writeFaults \in 0..MaxWriteFaults

(* A value is stored for the key of the reading.                           *)
Settled(r) == stored[Key(r)] # 0

(* No accepted reading disappears while the process lives, not even over a *)
(* flush that fails after some tenants have committed: it is buffered, in  *)
(* the batch being written, shed and counted, or its key is stored.        *)
NothingVanishes ==
    \A r \in Readings :
        \/ r \in Range(buffer) \/ r \in Range(flush.batch)
        \/ r \in dropped \/ Settled(r)

(* The cap holds whatever an outage does, and shedding is oldest first:    *)
(* what is in memory is newer than anything that was shed.                 *)
ShedsOldestFirst ==
    /\ Len(buffer) <= BufferMax
    /\ \A d \in dropped : \A r \in Range(buffer) : d < r

(* What the buffer keeps through outages, overflow and flushes that fail   *)
(* half-way: types, every accepted reading accounted for, and the oldest   *)
(* shed first (writer.ts).                                                 *)
WriterIsSound == WriterTypeOK /\ NothingVanishes /\ ShedsOldestFirst

(* What a flush writes is never a value it holds a later correction of:    *)
(* "last write wins" (dedupe), also when the value comes from a batch that *)
(* failed and was put back.                                                *)
NewestOfFlush ==
    [][\A k \in Keys :
         stored'[k] # stored[k] =>
             /\ stored[k] = 0
             /\ \A r \in Readings :
                  Key(r) = k /\ r > stored'[k] => r \notin Range(flush.batch)]_writervars

(* An outage that ends is caught up with: in the end nothing accepted is   *)
(* waiting, and every sensor that reported has been marked seen.           *)
CatchesUp ==
    [](process = "running") =>
        <>[](/\ buffer = <<>> /\ flush = NoFlush /\ touched = {}
             /\ seen = {Key(r)[1] : r \in Readings})

(* The newest value of a key is the one a flush writes, and in the end all *)
(* is written (writer.ts, dedupe and flush).                               *)
WriterCatchesUp == NewestOfFlush /\ CatchesUp

(* "Flush before the pool closes, or buffered readings are lost on every   *)
(* deploy" (server.ts): an orderly exit loses nothing.                     *)
NothingLostOnExit ==
    process = "exited" => \A r \in Readings : r \in dropped \/ Settled(r)
=============================================================================
