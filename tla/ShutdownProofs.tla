---------------------------- MODULE ShutdownProofs ----------------------------
(***************************************************************************)
(* Theorems about the life of the process and its frame log (modules       *)
(* Shutdown and FrameLog), for any relays and requests, any depth of the   *)
(* channel and any number of records.                                      *)
(*                                                                         *)
(* A record is on a way of four places: the channel, the writer's hands,   *)
(* the file, or lost.  The inductive invariant says where each record of a *)
(* relay is, in which order the places hold them, and who still has a      *)
(* clone of the logger at each stage of the shutdown.                      *)
(***************************************************************************)
EXTENDS Shutdown, SequenceTheorems, TLAPS

-----------------------------------------------------------------------------
(* Sequences of records                                                    *)

\* The order of FileKeepsOrder, of a sequence and between two.
Rising(s) == \A i, j \in 1..Len(s) : i < j /\ s[i][1] = s[j][1] => s[i][2] < s[j][2]
Precedes(a, b) == a[1] = b[1] => a[2] < b[2]
Before(s, t) == \A a \in Range(s), b \in Range(t) : Precedes(a, b)

LEMMA RangeOfAppend ==
    ASSUME NEW S, NEW s \in Seq(S), NEW e \in S
    PROVE  Range(Append(s, e)) = Range(s) \cup {e}
<1>1. /\ Append(s, e) \in Seq(S) /\ Len(Append(s, e)) = Len(s) + 1 /\ Len(s) \in Nat
      /\ DOMAIN Append(s, e) = 1..Len(s) + 1 /\ DOMAIN s = 1..Len(s)
      /\ \A i \in 1..Len(s) : Append(s, e)[i] = s[i]
      /\ Append(s, e)[Len(s) + 1] = e
    BY AppendProperties, LenProperties
<1>2. 1..Len(s) + 1 = 1..Len(s) \cup {Len(s) + 1}
    BY <1>1
<1>3. \A x : x \in Range(Append(s, e)) <=> \E i \in 1..Len(s) + 1 : x = Append(s, e)[i]
    BY <1>1 DEF Range
<1>4. \A x : x \in Range(s) <=> \E i \in 1..Len(s) : x = s[i]
    BY <1>1 DEF Range
<1>5. \A x : x \in Range(Append(s, e)) <=> (x \in Range(s) \/ x = e)
    BY <1>1, <1>2, <1>3, <1>4
<1>6. QED BY <1>5

LEMMA RangeOfTail ==
    ASSUME NEW S, NEW s \in Seq(S), s # <<>>
    PROVE  /\ Head(s) \in S /\ Tail(s) \in Seq(S)
           /\ Range(s) = {Head(s)} \cup Range(Tail(s))
<1>1. /\ Head(s) \in S /\ Tail(s) \in Seq(S) /\ Head(s) = s[1]
      /\ Len(Tail(s)) = Len(s) - 1 /\ Len(s) \in Nat \ {0}
      /\ DOMAIN s = 1..Len(s) /\ DOMAIN Tail(s) = 1..Len(s) - 1
      /\ \A i \in 1..Len(s) - 1 : Tail(s)[i] = s[i + 1]
    BY HeadTailProperties, LenProperties, EmptySeq
<1>2. \A x : x \in Range(s) <=> \E i \in 1..Len(s) : x = s[i]
    BY <1>1 DEF Range
<1>3. \A x : x \in Range(Tail(s)) <=> \E i \in 1..Len(s) - 1 : x = s[i + 1]
    BY <1>1 DEF Range
<1>4. ASSUME NEW x PROVE x \in Range(s) <=> (x = Head(s) \/ x \in Range(Tail(s)))
    <2>1. ASSUME x \in Range(s) PROVE x = Head(s) \/ x \in Range(Tail(s))
        <3>1. PICK i \in 1..Len(s) : x = s[i]
            BY <1>2, <2>1
        <3>2. i = 1 \/ (i - 1 \in 1..Len(s) - 1 /\ (i - 1) + 1 = i)
            BY <1>1
        <3>3. QED BY <1>1, <1>3, <3>1, <3>2
    <2>2. ASSUME x = Head(s) \/ x \in Range(Tail(s)) PROVE x \in Range(s)
        BY <1>1, <1>2, <1>3, <2>2
    <2>3. QED BY <2>1, <2>2
<1>5. QED BY <1>1, <1>4

LEMMA RangeOfFew ==
    /\ Range(<<>>) = {}
    /\ \A x : Range(<<x>>) = {x}
<1>1. Range(<<>>) = {}
    BY DEF Range
<1>2. ASSUME NEW x PROVE Range(<<x>>) = {x}
    BY DEF Range
<1>3. QED BY <1>1, <1>2

LEMMA RisingAppend ==
    ASSUME NEW S, NEW s \in Seq(S), NEW e \in S, Rising(s),
           \A a \in Range(s) : Precedes(a, e)
    PROVE  Rising(Append(s, e))
<1>1. /\ Len(Append(s, e)) = Len(s) + 1 /\ Len(s) \in Nat /\ DOMAIN s = 1..Len(s)
      /\ \A i \in 1..Len(s) : Append(s, e)[i] = s[i]
      /\ Append(s, e)[Len(s) + 1] = e
    BY AppendProperties, LenProperties
<1>2. \A i \in 1..Len(s) : Precedes(s[i], e)
    BY <1>1 DEF Range
<1> DEFINE t == Append(s, e)
<1> SUFFICES ASSUME NEW i \in 1..Len(t), NEW j \in 1..Len(t), i < j, t[i][1] = t[j][1]
             PROVE  t[i][2] < t[j][2]
    BY DEF Rising
<1> HIDE DEF t
<1>3. i \in 1..Len(s)
    BY <1>1 DEF t
<1>4. CASE j \in 1..Len(s)
    BY <1>1, <1>3, <1>4 DEF Rising, t
<1>5. CASE j = Len(s) + 1
    BY <1>1, <1>2, <1>3, <1>5 DEF Precedes, t
<1>6. QED BY <1>1, <1>4, <1>5 DEF t

LEMMA RisingTail ==
    ASSUME NEW S, NEW s \in Seq(S), s # <<>>, Rising(s)
    PROVE  Rising(Tail(s)) /\ \A b \in Range(Tail(s)) : Precedes(Head(s), b)
<1>1. /\ Head(s) = s[1] /\ Len(Tail(s)) = Len(s) - 1 /\ Len(s) \in Nat \ {0}
      /\ DOMAIN Tail(s) = 1..Len(s) - 1
      /\ \A i \in 1..Len(s) - 1 : Tail(s)[i] = s[i + 1]
    BY HeadTailProperties, LenProperties, EmptySeq
<1>2. Rising(Tail(s))
    BY <1>1 DEF Rising
<1>3. ASSUME NEW b \in Range(Tail(s)) PROVE Precedes(Head(s), b)
    <2>1. PICK i \in 1..Len(s) - 1 : b = s[i + 1]
        BY <1>1 DEF Range
    <2>2. 1 \in 1..Len(s) /\ i + 1 \in 1..Len(s) /\ 1 < i + 1
        BY <1>1
    <2>3. QED BY <1>1, <2>1, <2>2 DEF Rising, Precedes
<1>4. QED BY <1>2, <1>3

\* At most one record is in the writer's hands.
LEMMA InHand ==
    ASSUME NEW S, NEW s \in Seq(S), Len(s) <= 1, s # <<>>
    PROVE  \E x \in S : s = <<x>>
<1>1. Len(s) = 1
    <2>1. Len(s) \in Nat \ {0}
        BY EmptySeq, Zenon
    <2>2. QED BY <2>1
<1>2. s[1] \in S /\ s = <<s[1]>>
    BY <1>1, ElementOfSeq
<1>3. QED BY <1>2

-----------------------------------------------------------------------------
(* The inductive invariant *)

\* Every record a relay handed over is somewhere.
Kept ==
    \A r \in Relays : \A n \in 1..handed[r] :
        <<r, n>> \in Range(file) \cup Range(writing) \cup Range(queue) \cup lost

\* The places hold the records of a relay in the order of its frames, and none
\* that was not handed over.
InOrder ==
    /\ Rising(file) /\ Rising(queue)
    /\ Before(file, writing) /\ Before(file, queue) /\ Before(writing, queue)
    /\ \A a \in Range(file) \cup Range(writing) \cup Range(queue) : a[2] <= handed[a[1]]

\* Without a writer nothing is on its way, and one that finished left nothing.
Settled ==
    /\ writer # "running" => queue = <<>> /\ writing = <<>>
    /\ writer = "finished" => senders = {}
    /\ drain = "flushed" => writer \in {"finished", "absent"}

\* A clone for everybody who may still need one, if there is a writer.
Cloned ==
    /\ writer # "absent" /\ server # "stopped" => "router" \in senders
    /\ server = "stopped" => NothingServed
    /\ \A c \in Calls : call[c] = "relaying" =>
           c \in Relays /\ (writer # "absent" => c \in senders)

LogInv == LogTypeOK(Owners) /\ Kept /\ InOrder

ProcessOK ==
    /\ draining \in BOOLEAN
    /\ server \in {"serving", "graceful", "stopped"}
    /\ process \in {"running", "exited"}
    /\ call \in [Calls -> {"new", "connected", "checked", "refused", "handling",
                           "answered", "relaying", "ended", "closed", "cut"}]

ProcessInv == ProcessOK /\ Settled /\ Cloned /\ CutOnlyAfterGivingUp

LEMMA InitInv == FrameLogAssumption /\ Init => LogInv /\ ProcessInv
<1> SUFFICES ASSUME FrameLogAssumption, Init PROVE LogInv /\ ProcessInv
    OBVIOUS
<1>1. <<>> \in Seq(Record) /\ Len(<<>>) = 0
    BY EmptySeq
<1>2. LogTypeOK(Owners)
    BY <1>1 DEF FrameLogAssumption, Init, LogInit, LogTypeOK
<1>3. Kept
    BY DEF FrameLogAssumption, Init, LogInit, Kept
<1>4. InOrder
    BY <1>1, RangeOfFew DEF Init, LogInit, InOrder, Rising, Before
<1>5. ProcessInv
    BY DEF Init, LogInit, ProcessInv, ProcessOK, Settled, Cloned, CutOnlyAfterGivingUp, Owners
<1>6. QED BY <1>2, <1>3, <1>4, <1>5 DEF LogInv

-----------------------------------------------------------------------------
(* The frame log: one lemma for each operation that moves a record *)

records == <<queue, writing, file, lost, handed>>

LEMMA AppendKeeps ==
    ASSUME FrameLogAssumption, LogInv, NEW r \in Relays, AppendRecord(r)
    PROVE  LogInv'
<1> DEFINE record == <<r, handed[r] + 1>>
<1>1. /\ r \in senders /\ handed[r] < MaxRecords
      /\ handed' = [handed EXCEPT ![r] = @ + 1]
      /\ UNCHANGED <<senders, writing, file, writer, drain>>
      /\ \/ HasRoom /\ queue' = Append(queue, record) /\ lost' = lost
         \/ queue' = queue /\ lost' = lost \cup {record}
    BY DEF AppendRecord, Enqueue
<1>2. /\ queue \in Seq(Record) /\ Len(queue) <= Depth /\ lost \subseteq Record
      /\ file \in Seq(Record) /\ writing \in Seq(Record)
      /\ handed \in [Relays -> 0..MaxRecords] /\ MaxRecords \in Nat /\ Depth \in Nat
    BY DEF LogInv, LogTypeOK, FrameLogAssumption
<1>3. record \in Record /\ handed[r] \in Nat /\ record[1] = r /\ record[2] = handed[r] + 1
    BY <1>1, <1>2 DEF Record
<1>4. handed' \in [Relays -> 0..MaxRecords]
      /\ \A q \in Relays : handed'[q] = IF q = r THEN handed[r] + 1 ELSE handed[q]
    BY <1>1, <1>2
<1> HIDE DEF record
<1>5. /\ queue' \in Seq(Record) /\ Len(queue') <= Depth /\ lost' \subseteq Record
      /\ Range(queue') \cup lost' = Range(queue) \cup lost \cup {record}
      /\ Range(queue) \subseteq Range(queue') /\ Range(queue') \subseteq Range(queue) \cup {record}
    <2>1. CASE HasRoom /\ queue' = Append(queue, record) /\ lost' = lost
        <3>1. queue' \in Seq(Record) /\ Len(queue') = Len(queue) + 1 /\ Len(queue) \in Nat
            BY <1>2, <1>3, <2>1, AppendProperties, LenProperties
        <3>2. Range(queue') = Range(queue) \cup {record}
            BY <1>2, <1>3, <2>1, RangeOfAppend
        <3>3. QED BY <1>2, <2>1, <3>1, <3>2 DEF HasRoom
    <2>2. CASE queue' = queue /\ lost' = lost \cup {record}
        BY <1>2, <1>3, <2>2
    <2>3. QED BY <1>1, <2>1, <2>2
<1>6. LogTypeOK(Owners)'
    BY <1>1, <1>4, <1>5 DEF LogInv, LogTypeOK
<1>7. Kept'
    <2> SUFFICES ASSUME NEW q \in Relays, NEW n \in 1..handed'[q]
                 PROVE  <<q, n>> \in Range(file') \cup Range(writing') \cup Range(queue') \cup lost'
        BY DEF Kept
    <2>1. CASE q = r /\ n = handed[r] + 1
        BY <1>5, <2>1 DEF record
    <2>2. CASE ~(q = r /\ n = handed[r] + 1)
        <3>1. n \in 1..handed[q]
            BY <1>2, <1>3, <1>4, <2>2
        <3>2. QED BY <1>1, <1>5, <3>1 DEF LogInv, Kept
    <2>3. QED BY <2>1, <2>2
<1>8. InOrder'
    <2>1. \A a \in Range(file) \cup Range(writing) \cup Range(queue) :
              a[1] \in Relays /\ a[2] \in Nat /\ a[2] <= handed[a[1]]
        <3>1. Range(file) \cup Range(writing) \cup Range(queue) \subseteq Record
            BY <1>2, LenProperties, ElementOfSeq DEF Range
        <3>2. QED BY <3>1 DEF Record, LogInv, InOrder
    <2>2. \A a \in Range(file) \cup Range(writing) \cup Range(queue) : Precedes(a, record)
        BY <1>3, <2>1 DEF Precedes
    <2>3. Rising(queue')
        BY <1>1, <1>2, <1>3, <2>2, RisingAppend DEF LogInv, InOrder
    <2>4. Before(file, queue)' /\ Before(writing, queue)'
        BY <1>1, <1>5, <2>2 DEF LogInv, InOrder, Before
    <2>5. \A a \in Range(file') \cup Range(writing') \cup Range(queue') : a[2] <= handed'[a[1]]
        <3>1. \A a \in Range(file') \cup Range(writing') \cup Range(queue') :
                  a = record \/ a \in Range(file) \cup Range(writing) \cup Range(queue)
            BY <1>1, <1>5
        <3>2. \A q \in Relays : handed[q] \in Nat
            BY <1>2
        <3>3. QED BY <1>3, <1>4, <2>1, <3>1, <3>2
    <2>6. QED BY <1>1, <2>3, <2>4, <2>5 DEF LogInv, InOrder, Before
<1>9. QED BY <1>6, <1>7, <1>8 DEF LogInv

LEMMA TakeKeeps ==
    ASSUME LogInv, WriterTakes
    PROVE  LogInv'
<1>1. /\ writing = <<>> /\ queue # <<>> /\ writing' = <<Head(queue)>> /\ queue' = Tail(queue)
      /\ UNCHANGED <<senders, file, lost, handed, writer, drain>>
    BY DEF WriterTakes
<1>2. queue \in Seq(Record) /\ Len(queue) <= Depth
    BY DEF LogInv, LogTypeOK
<1>3. /\ Head(queue) \in Record /\ Tail(queue) \in Seq(Record)
      /\ Range(queue) = {Head(queue)} \cup Range(Tail(queue))
    BY <1>1, <1>2, RangeOfTail
<1>4. Len(Tail(queue)) = Len(queue) - 1 /\ Len(queue) \in Nat
    BY <1>1, <1>2, HeadTailProperties, LenProperties
<1>5. Range(writing') = {Head(queue)} /\ Range(writing) = {}
    BY <1>1, RangeOfFew
<1>6. Rising(Tail(queue)) /\ \A b \in Range(Tail(queue)) : Precedes(Head(queue), b)
    BY <1>1, <1>2, RisingTail DEF LogInv, InOrder
<1>7. LogTypeOK(Owners)'
    <2>1. <<Head(queue)>> \in Seq(Record) /\ Len(<<Head(queue)>>) = 1
        BY <1>3
    <2>2. Len(Tail(queue)) <= Depth
        <3>1. \A n \in Nat : n <= Depth => n - 1 <= Depth
            BY FrameLogAssumption DEF FrameLogAssumption
        <3>2. QED BY <1>2, <1>4, <3>1
    <2>3. QED BY <1>1, <1>3, <2>1, <2>2 DEF LogInv, LogTypeOK
<1>8. Kept'
    BY <1>1, <1>3, <1>5 DEF LogInv, Kept
<1>9. InOrder'
    BY <1>1, <1>3, <1>5, <1>6 DEF LogInv, InOrder, Before
<1>10. QED BY <1>7, <1>8, <1>9 DEF LogInv

LEMMA WriteKeeps ==
    ASSUME LogInv, WriterWrites
    PROVE  LogInv'
<1>1. /\ writing # <<>> /\ writing' = <<>>
      /\ \/ file' = file \o writing /\ UNCHANGED lost
         \/ lost' = lost \cup Range(writing) /\ UNCHANGED file
      /\ UNCHANGED <<senders, queue, handed, writer, drain>>
    BY DEF WriterWrites
<1>2. /\ file \in Seq(Record) /\ writing \in Seq(Record) /\ Len(writing) <= 1
      /\ lost \subseteq Record
    BY DEF LogInv, LogTypeOK
<1>3. PICK record \in Record : writing = <<record>>
    BY <1>1, <1>2, InHand
<1>4. Range(writing) = {record} /\ Range(writing') = {}
    BY <1>1, <1>3, RangeOfFew
<1>5. file \o writing = Append(file, record)
    BY <1>2, <1>3, AppendIsConcat
<1>6. /\ Append(file, record) \in Seq(Record)
      /\ Range(Append(file, record)) = Range(file) \cup {record}
    BY <1>2, AppendProperties, RangeOfAppend
<1>7. <<>> \in Seq(Record) /\ Len(<<>>) = 0
    BY EmptySeq
<1>8. LogTypeOK(Owners)'
    <2>1. file' \in Seq(Record) /\ lost' \subseteq Record
        BY <1>1, <1>2, <1>4, <1>5, <1>6
    <2>2. writing' \in Seq(Record) /\ Len(writing') <= 1
        BY <1>1, <1>7
    <2>3. QED BY <1>1, <2>1, <2>2 DEF LogInv, LogTypeOK
<1>9. Kept'
    BY <1>1, <1>4, <1>5, <1>6 DEF LogInv, Kept
<1>10. InOrder'
    <2>1. Rising(Append(file, record))
        BY <1>2, <1>4, RisingAppend DEF LogInv, InOrder, Before
    <2>2. QED BY <1>1, <1>4, <1>5, <1>6, <2>1 DEF LogInv, InOrder, Before
<1>11. QED BY <1>8, <1>9, <1>10 DEF LogInv

\* Everything else leaves the records alone.
LEMMA OtherKeeps ==
    ASSUME LogInv, UNCHANGED records,
           senders' \subseteq senders \cup Relays,
           writer' \in {"absent", "running", "finished"},
           drain' \in {"none", "waiting", "flushed", "gaveUp"}
    PROVE  LogInv'
BY DEF LogInv, LogTypeOK, Kept, InOrder, Rising, Before, records

-----------------------------------------------------------------------------
(* The process *)

LEMMA LogNext == FrameLogAssumption /\ LogInv /\ [Next]_vars => LogInv'
<1> SUFFICES ASSUME FrameLogAssumption, LogInv, [Next]_vars PROVE LogInv'
    OBVIOUS
<1>1. ASSUME UNCHANGED records, senders' \subseteq senders \cup Relays, UNCHANGED <<writer, drain>>
      PROVE  LogInv'
    BY <1>1, OtherKeeps DEF LogInv, LogTypeOK
<1>2. ASSUME NEW c \in Calls,
             Connect(c) \/ FirstCheck(c) \/ Guard(c) \/ Answer(c) \/ ClientLeaves(c) \/ CloseIdle(c)
      PROVE  LogInv'
    <2>1. UNCHANGED logVars
        BY <1>2 DEF Connect, FirstCheck, Guard, Answer, ClientLeaves, CloseIdle
    <2>2. QED BY <1>1, <2>1 DEF logVars, records
<1>3. ASSUME NEW c \in Calls, Upgrade(c) PROVE LogInv'
    BY <1>1, <1>3 DEF Upgrade, CloneFor, records
<1>4. ASSUME NEW c \in Relays, RelayLogs(c) PROVE LogInv'
    BY <1>4, AppendKeeps DEF RelayLogs
<1>5. ASSUME NEW c \in Relays, RelayEnds(c) PROVE LogInv'
    BY <1>1, <1>5 DEF RelayEnds, Forget, records
<1>6. CASE Signal \/ StopAccepting \/ Exit \/ UNCHANGED vars
    <2>1. UNCHANGED logVars
        BY <1>6 DEF Signal, StopAccepting, Exit, vars
    <2>2. QED BY <1>1, <2>1 DEF logVars, records
<1>7. CASE ServeReturns
    BY <1>1, <1>7 DEF ServeReturns, Forget, records
<1>8. CASE FlushLog
    <2>1. /\ UNCHANGED records /\ senders' \subseteq senders /\ writer' = writer
          /\ drain' \in {"waiting", "flushed", "gaveUp"}
        BY <1>8 DEF FlushLog, DrainStarts, DrainFlushed, DrainGivesUp, records
    <2>2. QED BY <2>1, OtherKeeps DEF LogInv, LogTypeOK
<1>9. CASE Writer
    <2>1. CASE WriterFinishes
        <3>1. UNCHANGED records /\ UNCHANGED <<senders, drain>> /\ writer' = "finished"
            BY <2>1 DEF WriterFinishes, records
        <3>2. QED BY <3>1, OtherKeeps DEF LogInv, LogTypeOK
    <2>2. QED BY <1>9, <2>1, TakeKeeps, WriteKeeps DEF Writer
<1>10. QED
    BY <1>2, <1>3, <1>4, <1>5, <1>6, <1>7, <1>8, <1>9 DEF Next

\* A call that moves while there is a log for everybody, and not into a relay.
LEMMA MoveKeeps ==
    ASSUME ProcessInv, NEW c \in Calls, NEW from, NEW to, Moves(c, from, to),
           to \in {"connected", "checked", "refused", "handling", "answered", "ended", "closed"},
           to \in {"connected", "checked", "handling"} => server # "stopped",
           UNCHANGED <<queue, writing, writer, drain>>,
           senders' = senders \/ (from = "relaying" /\ c \in Relays /\ senders' = senders \ {c}),
           ShutdownAssumption
    PROVE  ProcessInv'
<1>1. /\ call' = [call EXCEPT ![c] = to] /\ call[c] = from
      /\ UNCHANGED <<draining, server, process>>
    BY DEF Moves
<1>2. \A d \in Calls : call'[d] = IF d = c THEN to ELSE call[d]
    BY <1>1 DEF ProcessInv, ProcessOK
<1>3. ProcessOK'
    BY <1>1 DEF ProcessInv, ProcessOK
<1>4. Settled'
    BY DEF ProcessInv, Settled
<1>5. Cloned'
    <2>1. writer # "absent" /\ server # "stopped" => "router" \in senders'
        BY DEF ProcessInv, Cloned, ShutdownAssumption, Owners
    <2>2. server = "stopped" => \A d \in Calls : call'[d] \notin {"connected", "checked", "handling"}
        BY <1>2 DEF ProcessInv, Cloned, NothingServed, Served
    <2>3. \A d \in Calls : call'[d] = "relaying" =>
              d \in Relays /\ (writer # "absent" => d \in senders')
        BY <1>2 DEF ProcessInv, Cloned
    <2>4. QED BY <1>1, <2>1, <2>2, <2>3 DEF Cloned, NothingServed, Served
<1>6. CutOnlyAfterGivingUp'
    BY <1>2 DEF ProcessInv, CutOnlyAfterGivingUp
<1>7. QED BY <1>3, <1>4, <1>5, <1>6 DEF ProcessInv

LEMMA ProcessNext ==
    ShutdownAssumption /\ ProcessInv /\ [Next]_vars => ProcessInv'
<1> SUFFICES ASSUME ShutdownAssumption, ProcessInv, [Next]_vars PROVE ProcessInv'
    OBVIOUS
<1> USE DEF ProcessInv
<1>1. ASSUME NEW c \in Calls, Connect(c) PROVE ProcessInv'
    BY <1>1, MoveKeeps DEF Connect, logVars
<1>2. ASSUME NEW c \in Calls, FirstCheck(c) \/ Guard(c) \/ Answer(c) \/ ClientLeaves(c) \/ CloseIdle(c)
      PROVE  ProcessInv'
    <2>1. PICK from, to :
              /\ Moves(c, from, to) /\ UNCHANGED logVars
              /\ from \in {"connected", "checked", "handling"}
              /\ to \in {"checked", "refused", "handling", "answered", "closed"}
        BY <1>2 DEF FirstCheck, Guard, Answer, ClientLeaves, CloseIdle
    <2>2. server # "stopped"
        BY <2>1 DEF Moves, Cloned, NothingServed, Served
    <2>3. QED BY <2>1, <2>2, MoveKeeps DEF logVars
<1>3. ASSUME NEW c \in Calls, Upgrade(c) PROVE ProcessInv'
    <2>1. /\ c \in Relays /\ call[c] = "handling" /\ call' = [call EXCEPT ![c] = "relaying"]
          /\ senders' = IF "router" \in senders THEN senders \cup {c} ELSE senders
          /\ UNCHANGED <<queue, writing, writer, drain, draining, server, process>>
        BY <1>3 DEF Upgrade, Moves, CloneFor
    <2>2. \A d \in Calls : call'[d] = IF d = c THEN "relaying" ELSE call[d]
        BY <2>1 DEF ProcessOK
    <2>3. server # "stopped"
        BY <2>1 DEF Cloned, NothingServed, Served
    <2>4. ProcessOK'
        BY <2>1 DEF ProcessOK
    <2>5. Settled'
        BY <2>1 DEF Settled
    <2>6. Cloned'
        BY <2>1, <2>2, <2>3 DEF Cloned
    <2>7. CutOnlyAfterGivingUp'
        BY <2>1, <2>2 DEF CutOnlyAfterGivingUp
    <2>8. QED BY <2>4, <2>5, <2>6, <2>7
<1>4. ASSUME NEW c \in Relays, RelayLogs(c) PROVE ProcessInv'
    <2>1. /\ c \in senders /\ (queue' = queue \/ writer = "running")
          /\ UNCHANGED <<senders, writing, writer, drain, draining, server, process, call>>
        BY <1>4 DEF RelayLogs, AppendRecord
    <2>2. QED
        BY <2>1 DEF ProcessOK, Settled, Cloned, NothingServed, Served, CutOnlyAfterGivingUp
<1>5. ASSUME NEW c \in Relays, RelayEnds(c) PROVE ProcessInv'
    <2>1. c \in Calls
        BY DEF Calls
    <2>2. QED BY <1>5, <2>1, MoveKeeps DEF RelayEnds, Forget
<1>6. CASE Signal \/ UNCHANGED vars
    BY <1>6 DEF Signal, vars, logVars, ProcessOK, Settled, Cloned, NothingServed, Served,
                CutOnlyAfterGivingUp
<1>7. CASE StopAccepting
    BY <1>7 DEF StopAccepting, logVars, ProcessOK, Settled, Cloned, NothingServed, Served,
                CutOnlyAfterGivingUp
<1>8. CASE ServeReturns
    <2>1. /\ NothingServed /\ server' = "stopped" /\ senders' = senders \ {"router"}
          /\ UNCHANGED <<queue, writing, writer, drain, draining, process, call>>
        BY <1>8 DEF ServeReturns, Forget
    <2>2. QED
        BY <2>1 DEF ProcessOK, Settled, Cloned, NothingServed, Served, CutOnlyAfterGivingUp,
                    ShutdownAssumption, Owners
<1>9. CASE FlushLog
    <2>1. /\ server = "stopped" /\ UNCHANGED <<queue, writing, writer, draining, server, process, call>>
          /\ \/ drain = "none" /\ senders' = senders \ {"main"}
                 /\ drain' = IF writer = "absent" THEN "flushed" ELSE "waiting"
             \/ drain = "waiting" /\ writer = "finished" /\ drain' = "flushed" /\ senders' = senders
             \/ drain = "waiting" /\ drain' = "gaveUp" /\ senders' = senders
        BY <1>9 DEF FlushLog, DrainStarts, DrainFlushed, DrainGivesUp
    <2>2. ProcessOK' /\ Settled' /\ CutOnlyAfterGivingUp'
        BY <2>1 DEF ProcessOK, Settled, CutOnlyAfterGivingUp
    <2>3. Cloned'
        BY <2>1 DEF Cloned, NothingServed, Served, ShutdownAssumption, Owners
    <2>4. QED BY <2>2, <2>3
<1>10. CASE Writer
    <2>1. /\ UNCHANGED <<senders, drain, draining, server, process, call>>
          /\ \/ writer = "running" /\ writer' = writer
             \/ writing # <<>> /\ writing' = <<>> /\ queue' = queue /\ writer' = writer
             \/ /\ writer = "running" /\ writer' = "finished" /\ senders = {}
                /\ queue = <<>> /\ writing = <<>> /\ UNCHANGED <<queue, writing>>
        BY <1>10 DEF Writer, WriterTakes, WriterWrites, WriterFinishes, NothingMoreToReceive
    <2>2. ProcessOK' /\ Settled' /\ CutOnlyAfterGivingUp'
        BY <2>1 DEF ProcessOK, Settled, CutOnlyAfterGivingUp
    <2>3. Cloned'
        BY <2>1 DEF Cloned, NothingServed, Served
    <2>4. QED BY <2>2, <2>3
<1>11. CASE Exit
    <2>1. /\ drain \in {"flushed", "gaveUp"} /\ process' = "exited"
          /\ call' = [c \in Calls |-> IF call[c] = "relaying" THEN "cut" ELSE call[c]]
          /\ UNCHANGED <<senders, queue, writing, writer, drain, draining, server>>
        BY <1>11 DEF Exit, logVars
    <2>2. ProcessOK'
        BY <2>1 DEF ProcessOK
    <2>3. Settled' /\ Cloned'
        BY <2>1 DEF Settled, Cloned, NothingServed, Served
    <2>4. CutOnlyAfterGivingUp'
        BY <2>1 DEF Settled, Cloned, CutOnlyAfterGivingUp
    <2>5. QED BY <2>2, <2>3, <2>4
<1>12. QED
    BY <1>1, <1>2, <1>3, <1>4, <1>5, <1>6, <1>7, <1>8, <1>9, <1>10, <1>11 DEF Next

LEMMA SpecInv == Spec => [](LogInv /\ ProcessInv)
<1>1. FrameLogAssumption /\ ShutdownAssumption
    BY FrameLogAssumption, ShutdownAssumption
<1>2. LogInv /\ ProcessInv /\ [Next]_vars => (LogInv /\ ProcessInv)'
    BY <1>1, LogNext, ProcessNext
<1>3. QED BY <1>1, <1>2, InitInv, PTL DEF Spec

-----------------------------------------------------------------------------
(* The theorems *)

\* The state of the process and of the frame log is well formed; the channel never
\* holds more than its depth.
THEOREM ShutdownTypeCorrect == Spec => []TypeOK
<1>1. LogInv /\ ProcessInv => TypeOK
    BY DEF LogInv, ProcessInv, ProcessOK, TypeOK
<1>2. QED BY <1>1, SpecInv, PTL

\* The file is faithful: what a successful drain promised is in it, and the records
\* of a relay are in it in the order of its frames, each at most once.
THEOREM ShutdownFileIsFaithful == Spec => []FileIsFaithful
<1>1. ASSUME LogInv, ProcessInv PROVE FileIsFaithful
    <2>1. FlushedMeansWritten
        <3> SUFFICES ASSUME drain = "flushed"
                     PROVE  /\ \A r \in Relays : \A n \in 1..handed[r] :
                                   <<r, n>> \in Range(file) \cup lost
                            /\ writer = "finished" => senders = {}
            BY DEF FlushedMeansWritten
        <3>1. queue = <<>> /\ writing = <<>> /\ (writer = "finished" => senders = {})
            BY <1>1 DEF ProcessInv, Settled
        <3>2. Range(queue) = {} /\ Range(writing) = {}
            BY <3>1, RangeOfFew
        <3>3. QED BY <1>1, <3>1, <3>2 DEF LogInv, Kept
    <2>2. FileKeepsOrder
        BY <1>1 DEF LogInv, InOrder, Rising, FileKeepsOrder
    <2>3. QED BY <2>1, <2>2 DEF FileIsFaithful
<1>2. QED BY <1>1, SpecInv, PTL

\* A drain that reports success vouches for the relays: while one of them relays it
\* holds a clone of the logger, and the writer does not finish before it is dropped.
THEOREM ShutdownCutsOnlyAfterGivingUp == Spec => []CutOnlyAfterGivingUp
<1>1. ProcessInv => CutOnlyAfterGivingUp
    BY DEF ProcessInv
<1>2. QED BY <1>1, SpecInv, PTL
=============================================================================
