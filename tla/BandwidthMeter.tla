--------------------------- MODULE BandwidthMeter ---------------------------
(***************************************************************************)
(* The Durable Object BandwidthMeter of examples/cf-workers (src/          *)
(* bandwidth.rs): the bytes one caller moved through one bucket in a       *)
(* sliding window, kept in memory, persisted by each record, and cleared   *)
(* by an alarm.  The window is configuration, passed with every call.      *)
(*                                                                         *)
(* The runtime delivers nothing to an object that waits for its storage,   *)
(* so a handler is one step; but a write of a handler may fail, and the    *)
(* object may be evicted between handlers.  Entries differ only in age and *)
(* bytes, and the code only ever sums bytes by age: a series is a function *)
(* from ages to bytes.  Ages beyond Horizon, the longest window, are       *)
(* pruned by every handler before it looks, and are left out.              *)
(***************************************************************************)
EXTENDS Naturals

CONSTANTS
    Windows,      \* the windows that the configuration takes
    Limit,        \* limit_bytes
    Sizes,        \* bytes of a record, and estimates of a check
    StorageFails, \* whether writes of the storage may fail
    MaxMoved,     \* bound: bytes recorded within the horizon
    NoAlarm, NoVerdict

ASSUME MeterAssumption ==
    /\ Windows \subseteq Nat \ {0}
    /\ \E w \in Windows : \A v \in Windows : v <= w
    /\ Limit \in Nat /\ Sizes \subseteq Nat /\ MaxMoved \in Nat
    /\ StorageFails \in BOOLEAN
    /\ NoAlarm \notin Nat /\ NoVerdict \notin [bytes : Sizes, ok : BOOLEAN]

Horizon == CHOOSE w \in Windows : \A v \in Windows : v <= w

Ages == 0..Horizon

Series == [Ages -> 0..MaxMoved]

Verdicts == [bytes : Sizes, ok : BOOLEAN]

VARIABLES
    memory,   \* Inner.entries
    loaded,   \* Inner.loaded
    stored,   \* the "entries" key of the object's storage
    alarm,    \* time until the alarm fires, or NoAlarm
    window,   \* external: the configured window
    log,      \* history: all bytes recorded
    firm,     \* history: those whose record succeeded, under a window that
              \* has not been widened since
    verdict   \* what the latest step answered, if it was a check

vars == <<memory, loaded, stored, alarm, window, log, firm, verdict>>

NoBytes == [n \in Ages |-> 0]

Sum(series, oldest) ==
    LET upTo[n \in Ages] ==
          IF n = 0 THEN series[0] ELSE upTo[n - 1] + series[n]
    IN  upTo[oldest]

Added(series, bytes) == [series EXCEPT ![0] = @ + bytes]

Older(series) == [n \in Ages |-> IF n = 0 THEN 0 ELSE series[n - 1]]

-----------------------------------------------------------------------------

Init ==
    /\ memory = NoBytes
    /\ loaded = FALSE
    /\ stored = NoBytes
    /\ alarm = NoAlarm
    /\ window \in Windows
    /\ log = NoBytes
    /\ firm = NoBytes
    /\ verdict = NoVerdict

\* Mutant: the entries of the storage are appended to those in memory.
LoadedTwice == [n \in Ages |-> memory[n] + stored[n]]

\* ensure_loaded
Loaded == IF loaded THEN memory ELSE stored

\* Mutant: the cutoff keeps one age too many.
PrunedLate(series) == [n \in Ages |-> IF n <= window + 1 THEN series[n] ELSE 0]

\* prune: keeps ts >= now - window.
Pruned(series) == [n \in Ages |-> IF n <= window THEN series[n] ELSE 0]

\* handle_check, which prunes in memory only.
Check(bytes) ==
    /\ memory' = Pruned(Loaded)
    /\ loaded' = TRUE
    /\ verdict' = [bytes |-> bytes, ok |-> Sum(Pruned(Loaded), Horizon) + bytes <= Limit]
    /\ UNCHANGED <<stored, alarm, window, log, firm>>

\* The part of handle_record that precedes its first write.
Push(bytes) ==
    /\ Sum(log, Horizon) + bytes <= MaxMoved
    /\ memory' = Added(Pruned(Loaded), bytes)
    /\ loaded' = TRUE
    /\ log' = Added(log, bytes)
    /\ verdict' = NoVerdict
    /\ UNCHANGED window

\* Mutant: the new entry stays in memory.
RecordUnpersisted(bytes) ==
    /\ Push(bytes)
    /\ alarm' = window
    /\ firm' = Added(firm, bytes)
    /\ UNCHANGED stored

\* handle_record; set_alarm replaces the alarm that was set.
Record(bytes) ==
    /\ Push(bytes)
    /\ stored' = memory'
    /\ alarm' = window
    /\ firm' = Added(firm, bytes)

\* handle_record returns early: persist or set_alarm fails.
RecordFails(bytes) ==
    /\ StorageFails
    /\ Push(bytes)
    /\ stored' \in {stored, memory'}
    /\ UNCHANGED <<alarm, firm>>

\* alarm: every entry goes, whatever its age.  If persist fails, the runtime
\* fires the alarm again.
Alarm ==
    /\ alarm = 0
    /\ memory' = NoBytes
    /\ loaded' = TRUE
    /\ \/ /\ stored' = NoBytes
          /\ alarm' = NoAlarm
       \/ /\ StorageFails
          /\ UNCHANGED <<stored, alarm>>
    /\ verdict' = NoVerdict
    /\ UNCHANGED <<window, log, firm>>

\* The runtime evicts the object; `new` starts with nothing loaded.
Evict ==
    /\ memory' = NoBytes
    /\ loaded' = FALSE
    /\ verdict' = NoVerdict
    /\ UNCHANGED <<stored, alarm, window, log, firm>>

\* The configuration of the worker changes.
Reconfigure(w) ==
    /\ w # window
    /\ window' = w
    /\ firm' = IF w > window THEN NoBytes ELSE firm
    /\ verdict' = NoVerdict
    /\ UNCHANGED <<memory, loaded, stored, alarm, log>>

\* Time passes; an alarm that is due may fire late.
Tick ==
    /\ memory' = Older(memory)
    /\ stored' = Older(stored)
    /\ log' = Older(log)
    /\ firm' = Older(firm)
    /\ alarm' = IF alarm \in {NoAlarm, 0} THEN alarm ELSE alarm - 1
    /\ verdict' = NoVerdict
    /\ UNCHANGED <<loaded, window>>

Next ==
    \/ \E bytes \in Sizes : Check(bytes) \/ Record(bytes) \/ RecordFails(bytes)
    \/ Alarm \/ Evict \/ Tick
    \/ \E w \in Windows : Reconfigure(w)

Spec == Init /\ [][Next]_vars

-----------------------------------------------------------------------------
(* Properties                                                              *)

\* Types.  What is kept stays within what was recorded: MaxMoved bounds the
\* record, and bounds memory and storage only because nothing is kept twice.
TypeOK ==
    /\ memory \in Series /\ stored \in Series
    /\ log \in Series /\ firm \in Series
    /\ loaded \in BOOLEAN
    /\ alarm \in Ages \union {NoAlarm}
    /\ window \in Windows
    /\ verdict \in Verdicts \union {NoVerdict}

\* A refusal is earned: the bytes recorded inside the window, with those of
\* the request, are over the limit.  Nothing stale is counted and nothing is
\* counted twice, through evictions, reloads and changes of the window.
RefusalEarned ==
    verdict \in [bytes : Sizes, ok : {FALSE}] =>
        Sum(log, window) + verdict.bytes > Limit

\* A pass is earned, too, as far as the code takes care: the bytes younger
\* than the window, with those of the request, fit the limit, not counting
\* those whose record failed or preceded a wider window.
PassEarned ==
    verdict \in [bytes : Sizes, ok : {TRUE}] =>
        Sum(firm, window - 1) + verdict.bytes <= Limit
=============================================================================
