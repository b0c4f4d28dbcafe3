---------------------- MODULE HostNotifications_proofs ----------------------
(***************************************************************************)
(* Theorems about HostNotifications, for any requests, any sizes of the     *)
(* table and of the host's memory, and any number of breaks, lost posts,    *)
(* failed writes, ends of the Runtime and quits of the App.                 *)
(***************************************************************************)
EXTENDS HostNotifications, SequenceTheorems, TLAPS

(* The table holds the requests that wait, each once, while the router is   *)
(* open.                                                                    *)
Apart(s) == \A i, j \in 1..Len(s) : s[i] = s[j] => i = j

TableInv ==
  /\ Apart(pending)
  /\ \A r \in Request : answer[r] = "waiting" <=> \E i \in 1..Len(pending) : pending[i] = r
  /\ router # "open" => pending = <<>>

(* Where the loop of the client can be, by what it holds.                   *)
ClientInv ==
  /\ peer => router # "down"
  /\ connected => peer /\ client # "idle"
  /\ client \in {"idle", "reading"} <=> current = Nil
  /\ client = "posting" => receipt \in Status
  /\ client = "idle" => stream = <<>>

(* The events it has still to read differ, and are not the one in hand.     *)
StreamInv ==
  /\ Apart(stream)
  /\ \A i \in 1..Len(stream) : stream[i] # current

(* A client of the present Runtime goes through its table in order: the     *)
(* event in hand is the oldest pending one, and the stream follows it.  One *)
(* of an earlier Runtime holds nothing that is in the table.                *)
Taken == IF client \in {"handling", "posting"} THEN 1 ELSE 0

StepInv ==
  /\ peer /\ router = "open" =>
       /\ client # "refused"
       /\ Taken + Len(stream) <= Len(pending)
       /\ connected => Taken + Len(stream) = Len(pending)
       /\ \A i \in 1..Len(stream) : stream[i] = pending[i + Taken]
       /\ Taken = 1 => pending[1] = current
  /\ ~peer => \A i \in 1..Len(pending) :
       /\ pending[i] # current
       /\ \A j \in 1..Len(stream) : stream[j] # pending[i]

(* An event on its way was asked for, and has no receipt yet.               *)
AskedInv ==
  /\ \A r \in Request : answer[r] = "unasked" => shows[r] = 0 /\ r # current
  /\ \A i \in 1..Len(stream) :
       answer[stream[i]] \in {"waiting", "lost"} \/ stream[i] \in closedOut
  /\ \A r \in closedOut : answer[r] = "unavailable"

(* What was handed over and may come again is the oldest, and is either in  *)
(* hand or the last thing the host remembers.                               *)
Remembers(e) == memory # <<>> /\ memory[Len(memory)].event = e

InHandOrRemembered(e) ==
  \/ client \in {"idle", "reading"} /\ Remembers(e)
  \/ client = "handling" /\ current = e
  \/ client = "posting" /\ current = e /\ Remembers(e)

ShownInv ==
  /\ \A r \in Request : shows[r] <= 1
  /\ \A i \in 1..Len(stream) :
       shows[stream[i]] > 0 => i = 1 /\ current = Nil /\ Remembers(stream[1])
  /\ \A i \in 1..Len(pending) :
       shows[pending[i]] > 0 => i = 1 /\ peer /\ InHandOrRemembered(pending[1])

(* A receipt says what became of its notification, wherever it is kept.     *)
Matches(r, status) ==
  /\ status = "submitted" => r \in displayed
  /\ status \in {"suppressed", "unavailable"} => shows[r] = 0

ReceiptsInv ==
  /\ \A i \in 1..Len(memory) : Matches(memory[i].event, memory[i].receipt)
  /\ client = "posting" => Matches(current, receipt)
  /\ \A r \in Request : r \notin closedOut => Matches(r, answer[r])
  /\ \A r \in Request : record[r] \in Status => record[r] = answer[r]

Inv == /\ TypeOK /\ TableInv /\ ClientInv /\ StreamInv
       /\ StepInv /\ AskedInv /\ ShownInv /\ ReceiptsInv

(* The parts of TypeOK that the definition leaves without a name.           *)
Flags == connected \in BOOLEAN /\ peer \in BOOLEAN /\ app \in {"running", "stopped"}
Bounds == faults \in 0..MaxFaults /\ restarts \in 0..MaxRestarts

-----------------------------------------------------------------------------
(* The operators on sequences: what each leaves of its argument.            *)

(* An element more at the end.                                              *)
LEMMA Appended ==
  ASSUME NEW S, NEW s \in Seq(S), NEW e \in S
  PROVE  /\ Append(s, e) \in Seq(S) /\ Len(Append(s, e)) = Len(s) + 1
         /\ \A i \in 1..Len(s) : Append(s, e)[i] = s[i]
         /\ Append(s, e)[Len(s) + 1] = e
  OBVIOUS

(* The first taken off.                                                     *)
LEMMA Shortened ==
  ASSUME NEW S, NEW s \in Seq(S), s # <<>>
  PROVE  /\ Tail(s) \in Seq(S) /\ Len(Tail(s)) = Len(s) - 1
         /\ Len(s) > 0 /\ Head(s) = s[1] /\ s[1] \in S
         /\ \A i \in 1..Len(s) - 1 : Tail(s)[i] = s[i + 1]
  OBVIOUS

(* The first n kept.                                                        *)
LEMMA Kept ==
  ASSUME NEW S, NEW s \in Seq(S), NEW n \in 0..Len(s)
  PROVE  /\ SubSeq(s, 1, n) \in Seq(S) /\ Len(SubSeq(s, 1, n)) = n
         /\ \A i \in 1..n : SubSeq(s, 1, n)[i] = s[i]
  OBVIOUS

LEMMA RangeIs ==
  ASSUME NEW S, NEW s \in Seq(S)
  PROVE  Range(s) = {s[i] : i \in 1..Len(s)}
  BY DEF Range

(* Without takes one element off, and the first if that is its argument and *)
(* is there once.                                                           *)
LEMMA TakenOff ==
  ASSUME NEW S, NEW s \in Seq(S), NEW e
  PROVE  /\ Without(s, e) \in Seq(S) /\ Len(Without(s, e)) <= Len(s)
         /\ s # <<>> /\ s[1] = e /\ Apart(s) => Without(s, e) = Tail(s)
<1>1. CASE e \notin Range(s)
  <2>1. Without(s, e) = s
    BY <1>1 DEF Without
  <2>2. s # <<>> => s[1] \in Range(s)
    BY RangeIs
  <2> QED BY <1>1, <2>1, <2>2
<1>2. CASE e \in Range(s)
  <2>1. PICK m \in 1..Len(s) : s[m] = e /\ Without(s, e) = RemoveAt(s, m)
    <3> DEFINE k == CHOOSE i \in DOMAIN s : s[i] = e
    <3>1. \E i \in DOMAIN s : s[i] = e
      BY <1>2 DEF Range
    <3>2. k \in DOMAIN s /\ s[k] = e
      BY <3>1
    <3>3. Without(s, e) = RemoveAt(s, k)
      BY <1>2 DEF Without
    <3>4. DOMAIN s = 1..Len(s)
      OBVIOUS
    <3> HIDE DEF k
    <3> QED BY <3>2, <3>3, <3>4
  <2>2. Without(s, e) = SubSeq(s, 1, m - 1) \o SubSeq(s, m + 1, Len(s))
    BY <2>1 DEF RemoveAt
  <2>3. SubSeq(s, 1, m - 1) \in Seq(S) /\ Len(SubSeq(s, 1, m - 1)) = m - 1
    BY <2>1
  <2>4. SubSeq(s, m + 1, Len(s)) \in Seq(S) /\ Len(SubSeq(s, m + 1, Len(s))) = Len(s) - m
    BY <2>1
  <2>5. Without(s, e) \in Seq(S) /\ Len(Without(s, e)) <= Len(s)
    <3> DEFINE front == SubSeq(s, 1, m - 1)
               back  == SubSeq(s, m + 1, Len(s))
    <3>1. front \in Seq(S) /\ back \in Seq(S) /\ Len(front) + Len(back) <= Len(s)
      <4>1. m - 1 + (Len(s) - m) <= Len(s)
        OBVIOUS
      <4> QED BY <2>3, <2>4, <4>1
    <3>2. Without(s, e) = front \o back
      BY <2>2
    <3> HIDE DEF front, back
    <3>3. front \o back \in Seq(S) /\ Len(front \o back) = Len(front) + Len(back)
      BY <3>1, ConcatProperties
    <3> QED BY <3>1, <3>2, <3>3
  <2>6. ASSUME s # <<>>, s[1] = e, Apart(s) PROVE Without(s, e) = Tail(s)
    <3>1. m = 1
      BY <2>1, <2>6 DEF Apart
    <3>2. SubSeq(s, 1, 0) = <<>> /\ SubSeq(s, 2, Len(s)) = Tail(s)
      BY <2>6
    <3> QED BY <2>2, <2>4, <3>1, <3>2
  <2> QED BY <2>5, <2>6
<1> QED BY <1>1, <1>2

-----------------------------------------------------------------------------
(* What the host remembers after one receipt more: it comes last, and the   *)
(* others are what was remembered before.                                   *)
LEMMA RememberedIs ==
  ASSUME TypeOK, NEW e \in Request, NEW rc \in Status
  PROVE  /\ Remembered(e, rc) \in Seq([event : Request, receipt : Status])
         /\ Remembered(e, rc) # <<>> /\ Len(Remembered(e, rc)) \in 1..MaxRemembered
         /\ Remembered(e, rc)[Len(Remembered(e, rc))] = [event |-> e, receipt |-> rc]
         /\ \A i \in 1..Len(Remembered(e, rc)) :
              \/ Remembered(e, rc)[i] = [event |-> e, receipt |-> rc]
              \/ \E j \in 1..Len(memory) : Remembered(e, rc)[i] = memory[j]
<1> DEFINE Entry == [event : Request, receipt : Status]
           new == [event |-> e, receipt |-> rc]
           longer == Append(memory, new)
<1>1. memory \in Seq(Entry) /\ new \in Entry /\ Len(memory) <= MaxRemembered
  BY DEF TypeOK, ClientTypes
<1> HIDE DEF new, Entry
<1>2. /\ longer \in Seq(Entry) /\ Len(longer) = Len(memory) + 1
      /\ \A i \in 1..Len(memory) : longer[i] = memory[i]
      /\ longer[Len(memory) + 1] = new
  BY <1>1, Appended
<1>3. MaxRemembered \in Nat \ {0} /\ Len(memory) \in Nat
  BY <1>1, NotificationAssumption
<1> HIDE DEF longer
<1>4. CASE Len(longer) > MaxRemembered
  <2>1. longer # <<>> /\ Remembered(e, rc) = Tail(longer)
    BY <1>2, <1>3, <1>4 DEF Remembered, longer, new
  <2>2. /\ Tail(longer) \in Seq(Entry) /\ Len(Tail(longer)) = Len(memory)
        /\ \A i \in 1..Len(memory) : Tail(longer)[i] = longer[i + 1]
    BY <1>2, <1>3, <2>1, Shortened
  <2>3. Len(memory) = MaxRemembered
    BY <1>1, <1>2, <1>3, <1>4
  <2>4. Tail(longer)[Len(memory)] = new
    BY <1>2, <1>3, <2>2, <2>3
  <2>5. \A i \in 1..Len(memory) : \/ Tail(longer)[i] = new
                                  \/ \E j \in 1..Len(memory) : Tail(longer)[i] = memory[j]
    <3> TAKE i \in 1..Len(memory)
    <3>1. CASE i = Len(memory)
      BY <2>4, <3>1
    <3>2. CASE i # Len(memory)
      <4>1. i + 1 \in 1..Len(memory)
        BY <1>3, <3>2
      <4> QED BY <1>2, <2>2, <4>1
    <3> QED BY <3>1, <3>2
  <2>6. Tail(longer) # <<>>
    BY <1>3, <2>2, <2>3
  <2> QED BY <1>3, <2>1, <2>2, <2>3, <2>4, <2>5, <2>6 DEF Entry, new
<1>5. CASE ~(Len(longer) > MaxRemembered)
  <2>1. Remembered(e, rc) = longer
    BY <1>5 DEF Remembered, longer, new
  <2> QED BY <1>2, <1>3, <1>5, <2>1 DEF Entry, new
<1> QED BY <1>4, <1>5

(* Promises resolved: their answers, and of the records only those begun.   *)
LEMMA ResolvedAre ==
  ASSUME TypeOK, NEW rs \in SUBSET Request, NEW status \in Status, Resolve(rs, status)
  PROVE  /\ answer' \in [Request -> Status \cup {"unasked", "waiting", "lost"}]
         /\ \A r \in Request : answer'[r] = IF r \in rs THEN status ELSE answer[r]
         /\ record' \in [Request -> Status \cup {"none", "pending", "result_unknown"}]
         /\ \A r \in Request : \/ record'[r] = record[r]
                               \/ r \in rs /\ record'[r] = status
         /\ faults' \in 0..MaxFaults
<1>1. PICK written \in SUBSET {r \in rs : record[r] = "pending"} :
        /\ record' = [r \in Request |-> IF r \in written THEN status ELSE record[r]]
        /\ \/ UNCHANGED faults
           \/ Faulty
  BY DEF Resolve
<1>2. answer' = [r \in Request |-> IF r \in rs THEN status ELSE answer[r]]
  BY DEF Resolve
<1>3. faults' \in 0..MaxFaults
  BY <1>1, NotificationAssumption DEF TypeOK, Faulty
<1> QED BY <1>1, <1>2, <1>3 DEF TypeOK, RuntimeTypes

(* Where the records and answers of the pending requests are.               *)
LEMMA PendingAre ==
  ASSUME Inv
  PROVE  /\ pending \in Seq(Request) /\ Range(pending) \subseteq Request
         /\ Range(pending) = {r \in Request : answer[r] = "waiting"}
         /\ \A r \in Request : r \in Range(pending) <=>
              \E i \in 1..Len(pending) : pending[i] = r
<1>1. pending \in Seq(Request)
  BY DEF Inv, TypeOK, RuntimeTypes
<1>2. Range(pending) = {pending[i] : i \in 1..Len(pending)}
  BY <1>1, RangeIs
<1>3. \A i \in 1..Len(pending) : pending[i] \in Request
  BY <1>1
<1> QED BY <1>1, <1>2, <1>3 DEF Inv, TableInv

(* A receipt posted to the present Runtime is that of the oldest pending    *)
(* request, which it takes out of the table.                                *)
LEMMA OldestIsTaken ==
  ASSUME Inv, client = "posting", peer, current \in Range(pending)
  PROVE  /\ router = "open" /\ pending # <<>> /\ current = pending[1]
         /\ Without(pending, current) = Tail(pending)
         /\ current \in Request /\ answer[current] = "waiting" /\ receipt \in Status
<1>1. \E i \in 1..Len(pending) : pending[i] = current
  BY PendingAre
<1>2. pending \in Seq(Request) /\ pending # <<>> /\ router = "open"
  BY <1>1, PendingAre DEF Inv, TableInv
<1>3. current = pending[1] /\ Apart(pending)
  BY <1>2 DEF Inv, StepInv, Taken, TableInv
<1>4. Without(pending, current) = Tail(pending)
  BY <1>2, <1>3, TakenOff
<1> QED BY <1>2, <1>3, <1>4, PendingAre DEF Inv, ClientInv

-----------------------------------------------------------------------------
(* What the steps do that several actions share, in a state of Inv.         *)

(* A client reads the first event of its stream.                            *)
LEMMA Reads ==
  ASSUME Inv, Consume
  PROVE  /\ client = "reading" /\ current = Nil /\ app = "running"
         /\ stream \in Seq(Request) /\ Len(stream) > 0 /\ Head(stream) = stream[1]
         /\ current' = stream[1] /\ stream[1] \in Request
         /\ stream' \in Seq(Request) /\ Len(stream') = Len(stream) - 1
         /\ \A i \in 1..Len(stream') : stream'[i] = stream[i + 1]
         /\ memory \in Seq([event : Request, receipt : Status])
         /\ Known = {i \in 1..Len(memory) : memory[i].event = stream[1]}
<1>1. stream \in Seq(Request) /\ stream # <<>> /\ stream' = Tail(stream)
  BY DEF Consume, Inv, TypeOK, ClientTypes
<1>2. memory \in Seq([event : Request, receipt : Status])
  BY DEF Inv, TypeOK, ClientTypes
<1>3. /\ client = "reading" /\ current = Nil /\ app = "running"
      /\ current' = Head(stream)
  BY DEF Consume, Inv, ClientInv
<1>4. /\ Head(stream) = stream[1] /\ stream[1] \in Request
      /\ stream' \in Seq(Request) /\ Len(stream') = Len(stream) - 1 /\ Len(stream) > 0
      /\ \A i \in 1..Len(stream) - 1 : stream'[i] = stream[i + 1]
  BY <1>1, Shortened
<1>5. DOMAIN memory = 1..Len(memory)
  BY <1>2
<1> QED BY <1>1, <1>2, <1>3, <1>4, <1>5 DEF Known

(* The host remembers a receipt: nothing else it remembers is new.          *)
Remembering(e, rc) ==
  /\ memory' \in Seq([event : Request, receipt : Status])
  /\ memory' # <<>> /\ Len(memory') \in 1..MaxRemembered
  /\ memory'[Len(memory')] = [event |-> e, receipt |-> rc]
  /\ \A i \in 1..Len(memory') :
       \/ memory'[i] = [event |-> e, receipt |-> rc]
       \/ \E j \in 1..Len(memory) : memory'[i] = memory[j]

LEMMA RemembersIt ==
  ASSUME Inv, NEW e \in Request, NEW rc \in Status, memory' = Remembered(e, rc)
  PROVE  Remembering(e, rc)
<1>1. TypeOK
  BY DEF Inv
<1> DEFINE m == Remembered(e, rc)
<1>2. /\ m \in Seq([event : Request, receipt : Status])
      /\ m # <<>> /\ Len(m) \in 1..MaxRemembered
      /\ m[Len(m)] = [event |-> e, receipt |-> rc]
      /\ \A i \in 1..Len(m) : \/ m[i] = [event |-> e, receipt |-> rc]
                             \/ \E j \in 1..Len(memory) : m[i] = memory[j]
  BY <1>1, RememberedIs
<1>3. memory' = m
  OBVIOUS
<1> HIDE DEF m
<1> QED BY <1>2, <1>3 DEF Remembering

(* An event is answered without being shown.                                *)
LEMMA AnswersUnshown ==
  ASSUME Inv, HandleUnshown
  PROVE  /\ receipt' \in {"suppressed", "unavailable", "failed"}
         /\ Remembering(stream[1], receipt')
         /\ \A i \in 1..Len(memory) : memory[i].event # stream[1]
<1>1. Consume /\ Known = {} /\ receipt' \in {"suppressed", "unavailable", "failed"}
  BY DEF HandleUnshown
<1>2. memory' = Remembered(stream[1], receipt') /\ stream[1] \in Request
  BY <1>1, Reads DEF HandleUnshown
<1>3. receipt' \in Status
  BY <1>1 DEF Status
<1>4. Remembering(stream[1], receipt')
  BY <1>2, <1>3, RemembersIt
<1> QED BY <1>1, <1>4, Reads

(* An event has been answered before.                                       *)
LEMMA AnswersAgain ==
  ASSUME Inv, HandleDuplicate
  PROVE  /\ receipt' \in Status
         /\ \E i \in 1..Len(memory) :
              memory[i].event = stream[1] /\ memory[i].receipt = receipt'
<1>1. Consume /\ \E i \in Known : receipt' = memory[i].receipt
  BY DEF HandleDuplicate
<1>2. PICK i \in 1..Len(memory) : memory[i].event = stream[1] /\ memory[i].receipt = receipt'
  BY <1>1, Reads
<1> DEFINE Entry == [event : Request, receipt : Status]
<1>3. memory \in Seq(Entry)
  BY <1>1, Reads
<1> HIDE DEF Entry
<1>4. memory[i] \in Entry
  BY <1>2, <1>3
<1> QED BY <1>2, <1>4 DEF Entry

(* A submission is settled, by whichever event comes first.                 *)
LEMMA Settles ==
  ASSUME Inv, ShowEvent \/ FailedEvent \/ Timeout
  PROVE  /\ client = "handling" /\ client' = "posting" /\ current \in Request
         /\ receipt' \in {"submitted", "failed"}
         /\ receipt' = "submitted" => current \in displayed
         /\ Remembering(current, receipt')
         /\ active' \in Seq(Request) /\ Len(active') <= MaxActive
         /\ UNCHANGED <<runtime, wire, current, shows, displayed, app, faults, restarts>>
<1>1. PICK rc \in {"submitted", "failed"} :
        Settled(rc) /\ (rc = "submitted" => current \in displayed)
  BY DEF ShowEvent, FailedEvent, Timeout
<1>2. /\ client = "handling" /\ client' = "posting" /\ receipt' = rc
      /\ memory' = Remembered(current, rc)
      /\ active' = IF rc = "submitted" THEN active ELSE Without(active, current)
      /\ UNCHANGED <<runtime, wire, current, shows, displayed, app, faults, restarts>>
  BY <1>1 DEF Settled
<1>3. current \in Request /\ rc \in Status
  BY <1>2 DEF Inv, ClientInv, TypeOK, ClientTypes, Status
<1>4. Remembering(current, rc)
  BY <1>2, <1>3, RemembersIt
<1>5. active \in Seq(Request) /\ Len(active) <= MaxActive /\ MaxActive \in Nat
  BY NotificationAssumption DEF Inv, TypeOK, ClientTypes
<1>6. Without(active, current) \in Seq(Request) /\ Len(Without(active, current)) <= Len(active)
  BY <1>5, TakenOff
<1>7. active' \in Seq(Request) /\ Len(active') <= MaxActive
  <2>1. CASE rc = "submitted"
    BY <1>2, <1>5, <2>1
  <2>2. CASE rc # "submitted"
    <3>1. active' = Without(active, current)
      BY <1>2, <2>2
    <3>2. Len(Without(active, current)) \in Nat /\ Len(active) \in Nat
      BY <1>5, <1>6
    <3> QED BY <1>5, <1>6, <3>1, <3>2
  <2> QED BY <2>1, <2>2
<1> QED BY <1>1, <1>2, <1>3, <1>4, <1>7

(* A receipt is posted: to a table that does not hold the request, or for   *)
(* the oldest request of the table.                                         *)
Refused ==
  /\ client' = "refused" /\ current \notin Range(pending)
  /\ UNCHANGED <<pending, answer, record, faults>>

Acknowledged ==
  /\ client' = "acknowledged" /\ router = "open"
  /\ current = pending[1] /\ current \in Request /\ answer[current] = "waiting"
  /\ receipt \in Status /\ Len(pending) > 0
  /\ pending' \in Seq(Request) /\ Len(pending') = Len(pending) - 1
  /\ \A i \in 1..Len(pending') : pending'[i] = pending[i + 1]
  /\ answer' \in [Request -> Status \cup {"unasked", "waiting", "lost"}]
  /\ \A r \in Request : answer'[r] = IF r = current THEN receipt ELSE answer[r]
  /\ record' \in [Request -> Status \cup {"none", "pending", "result_unknown"}]
  /\ \A r \in Request : \/ record'[r] = record[r]
                        \/ r = current /\ record'[r] = receipt
  /\ faults' \in 0..MaxFaults

LEMMA Acknowledges ==
  ASSUME Inv, Acknowledge
  PROVE  Refused \/ Acknowledged
<1>1. CASE current \notin Range(pending)
  BY <1>1 DEF Acknowledge, Refused
<1>2. CASE current \in Range(pending)
  <2>1. /\ client = "posting" /\ peer
        /\ client' = "acknowledged" /\ pending' = Without(pending, current)
        /\ Resolve({current}, receipt)
    BY <1>2 DEF Acknowledge
  <2>2. /\ router = "open" /\ pending # <<>> /\ current = pending[1]
        /\ pending' = Tail(pending)
        /\ current \in Request /\ answer[current] = "waiting" /\ receipt \in Status
    BY <1>2, <2>1, OldestIsTaken
  <2>3. /\ pending \in Seq(Request) /\ pending' \in Seq(Request)
        /\ Len(pending') = Len(pending) - 1 /\ Len(pending) > 0
        /\ \A i \in 1..Len(pending) - 1 : pending'[i] = pending[i + 1]
    BY <2>2, PendingAre, Shortened
  <2>4. {current} \in SUBSET Request /\ TypeOK
    BY <2>2 DEF Inv
  <2>5. /\ answer' \in [Request -> Status \cup {"unasked", "waiting", "lost"}]
        /\ \A r \in Request : answer'[r] = IF r \in {current} THEN receipt ELSE answer[r]
        /\ record' \in [Request -> Status \cup {"none", "pending", "result_unknown"}]
        /\ \A r \in Request : \/ record'[r] = record[r]
                              \/ r \in {current} /\ record'[r] = receipt
        /\ faults' \in 0..MaxFaults
    BY <2>1, <2>2, <2>4, ResolvedAre
  <2> QED BY <2>1, <2>2, <2>3, <2>5 DEF Acknowledged
<1> QED BY <1>1, <1>2

(* The events there are.                                                    *)
LEMMA EventsAre ==
  ASSUME Inv
  PROVE  /\ stream \in Seq(Request) /\ pending \in Seq(Request)
         /\ Len(stream) \in Nat /\ Len(pending) \in Nat
         /\ \A i \in 1..Len(stream) : stream[i] \in Request /\ stream[i] # Nil
         /\ \A i \in 1..Len(pending) : /\ pending[i] \in Request /\ pending[i] # Nil
                                       /\ answer[pending[i]] = "waiting"
<1>1. stream \in Seq(Request) /\ pending \in Seq(Request)
  BY DEF Inv, TypeOK, RuntimeTypes, ClientTypes
<1>2. /\ \A i \in 1..Len(stream) : stream[i] \in Request
      /\ \A i \in 1..Len(pending) : pending[i] \in Request
  BY <1>1
<1>3. \A i \in 1..Len(pending) : answer[pending[i]] = "waiting"
  BY <1>2 DEF Inv, TableInv
<1>4. Len(stream) \in Nat /\ Len(pending) \in Nat
  BY <1>1
<1>5. Nil \notin Request
  BY NotificationAssumption
<1> QED BY <1>1, <1>2, <1>3, <1>4, <1>5

(* A request joins the table, and the stream if there is one; it is new to  *)
(* both, and to the client.                                                 *)
Joining(r) ==
  /\ router = "open" /\ answer[r] = "unasked" /\ answer'[r] = "waiting"
  /\ \A q \in Request : q # r => answer'[q] = answer[q]
  /\ Len(pending') = Len(pending) + 1 /\ pending'[Len(pending) + 1] = r
  /\ \A i \in 1..Len(pending) : pending'[i] = pending[i] /\ pending[i] # r
  /\ connected => Len(stream') = Len(stream) + 1 /\ stream'[Len(stream) + 1] = r
  /\ ~connected => Len(stream') = Len(stream)
  /\ \A i \in 1..Len(stream) : stream'[i] = stream[i] /\ stream[i] # r
  /\ r # current /\ r # Nil /\ shows[r] = 0

LEMMA Joins ==
  ASSUME Inv, NEW r \in Request, RequestNotification(r)
  PROVE  Joining(r)
<1>1. /\ router = "open" /\ answer[r] = "unasked" /\ pending' = Append(pending, r)
      /\ answer' = [answer EXCEPT ![r] = "waiting"]
      /\ stream' = IF connected THEN Append(stream, r) ELSE stream
  BY DEF RequestNotification, Accepts
<1>2. answer'[r] = "waiting" /\ \A q \in Request : q # r => answer'[q] = answer[q]
  BY <1>1 DEF Inv, TypeOK, RuntimeTypes
<1>3. /\ Len(pending') = Len(pending) + 1 /\ pending'[Len(pending) + 1] = r
      /\ \A i \in 1..Len(pending) : pending'[i] = pending[i]
  BY <1>1, EventsAre, Appended
<1>4. /\ Len(Append(stream, r)) = Len(stream) + 1 /\ Append(stream, r)[Len(stream) + 1] = r
      /\ \A i \in 1..Len(stream) : Append(stream, r)[i] = stream[i]
  BY EventsAre, Appended
<1>5. \A i \in 1..Len(pending) : pending[i] # r
  BY <1>1, EventsAre
<1>6. \A i \in 1..Len(stream) : stream[i] # r
  BY <1>1 DEF Inv, AskedInv
<1>7. r # current /\ r # Nil /\ shows[r] = 0
  BY <1>1, NotificationAssumption DEF Inv, AskedInv
<1> QED BY <1>1, <1>2, <1>3, <1>4, <1>5, <1>6, <1>7 DEF Joining

(* Of what was written to the stream, some has arrived.                     *)
Cut ==
  /\ Len(stream') \in 0..Len(stream)
  /\ \A i \in 1..Len(stream') : stream'[i] = stream[i]

LEMMA Cuts ==
  ASSUME Inv, Exit \/ Break \/ Quit \/ Start
  PROVE  Cut
<1>1. PICK n \in 0..Len(stream) :
        stream' = SubSeq(stream, 1, n) \/ stream' = <<>> \/ stream' = stream
  BY EventsAre DEF Exit, Break, Quit, Start, wire
<1>2. CASE stream' = SubSeq(stream, 1, n)
  <2>1. Len(SubSeq(stream, 1, n)) = n /\ \A i \in 1..n : SubSeq(stream, 1, n)[i] = stream[i]
    BY <1>1, EventsAre, Kept
  <2> QED BY <1>1, <1>2, <2>1 DEF Cut
<1>3. CASE stream' = <<>>
  BY <1>3, EventsAre DEF Cut
<1>4. CASE stream' = stream
  BY <1>4, EventsAre DEF Cut
<1> QED BY <1>1, <1>2, <1>3, <1>4

(* The client leaves its stream and what it has in hand.                    *)
LEMMA Leaves ==
  ASSUME Inv, EndOfStream \/ PostRefused \/ PostLost
  PROVE  /\ Reconnect /\ UNCHANGED <<runtime, peer, host, app, restarts>>
         /\ faults' = faults \/ Faulty
         /\ client # "handling" /\ client # "idle"
<1>1. /\ Reconnect /\ UNCHANGED <<runtime, peer, host, app, restarts>>
      /\ faults' = faults \/ Faulty
      /\ client # "handling" /\ client # "idle"
  BY DEF EndOfStream, PostRefused, PostLost
<1> QED BY <1>1

-----------------------------------------------------------------------------
(* Types, of the Runtime ...                                                *)
LEMMA RuntimeTypesKept ==
  ASSUME Inv, [Next]_vars
  PROVE  RuntimeTypes'
<1>1. ASSUME NEW r \in Request, RequestNotification(r) PROVE RuntimeTypes'
  BY <1>1, NotificationAssumption, Appended DEF RequestNotification,
      Accepts, RuntimeTypes, TypeOK, Inv, Status, loop, host
<1>2. ASSUME NEW r \in Request, RefuseNotification(r) PROVE RuntimeTypes'
  BY <1>2, NotificationAssumption DEF RefuseNotification, RuntimeTypes,
      TypeOK, Inv, Status, wire, loop, host
<1>3. ASSUME NEW r \in Request, CloseNative(r) PROVE RuntimeTypes'
  BY <1>3, NotificationAssumption DEF CloseNative, RuntimeTypes, TypeOK,
      Inv, Status, runtime, wire, loop
<1>4. CASE Acknowledge
  BY <1>4, NotificationAssumption, Acknowledges DEF Acknowledge,
      RuntimeTypes, TypeOK, Inv, Status, Refused, Acknowledged, wire, host
<1>5. CASE Close
  BY <1>5, NotificationAssumption, PendingAre, ResolvedAre DEF Close,
      RuntimeTypes, TypeOK, Inv, Status, wire, loop, host
<1>6. CASE Exit
  BY <1>6, NotificationAssumption DEF Exit, RuntimeTypes, TypeOK, Inv,
      Status, loop, host
<1>7. CASE Start
  BY <1>7, NotificationAssumption DEF Start, RuntimeTypes, TypeOK, Inv,
      Status, Recovered, wire, loop
<1>8. CASE Connect
  BY <1>8, NotificationAssumption DEF Connect, Replayed, RuntimeTypes,
      TypeOK, Inv, Status, runtime, host
<1>9. CASE HandleDuplicate
  BY <1>9, NotificationAssumption DEF HandleDuplicate, RuntimeTypes, TypeOK,
      Inv, Status, runtime, host
<1>10. CASE HandleUnshown
  BY <1>10, NotificationAssumption DEF HandleUnshown, RuntimeTypes, TypeOK,
      Inv, Status, runtime
<1>11. CASE Submit
  BY <1>11, NotificationAssumption DEF Submit, RuntimeTypes, TypeOK, Inv,
      Status, runtime
<1>12. CASE PostAnswered
  BY <1>12, NotificationAssumption DEF PostAnswered, RuntimeTypes, TypeOK,
      Inv, Status, runtime, wire, host
<1>13. CASE EndOfStream \/ PostRefused \/ PostLost
  <2>1. /\ client' = "idle" /\ connected' = FALSE /\ stream' = <<>>
        /\ current' = Nil /\ receipt' = Nil
        /\ UNCHANGED <<runtime, peer, host, app, restarts>>
    BY <1>13, Leaves DEF Reconnect
  <2> QED BY <2>1, NotificationAssumption DEF RuntimeTypes, TypeOK, Inv,
      Status, runtime, host
<1>14. CASE Display
  BY <1>14, NotificationAssumption DEF Display, RuntimeTypes, TypeOK, Inv,
      Status, runtime, wire, loop
<1>15. CASE ShowEvent \/ FailedEvent \/ Timeout
  BY <1>15, NotificationAssumption, Settles DEF RuntimeTypes, TypeOK, Inv,
      Status, runtime, wire
<1>16. CASE Break
  BY <1>16, NotificationAssumption DEF Break, RuntimeTypes, TypeOK, Inv,
      Status, runtime, loop, host
<1>17. CASE Quit
  BY <1>17, NotificationAssumption DEF Quit, RuntimeTypes, TypeOK, Inv,
      Status, runtime, loop
<1>18. CASE UNCHANGED vars
  BY <1>18 DEF RuntimeTypes, TypeOK, Inv, Status, vars, runtime, wire, loop,
      host
<1> QED BY <1>1, <1>2, <1>3, <1>4, <1>5, <1>6, <1>7, <1>8, <1>9, <1>10,
    <1>11, <1>12, <1>13, <1>14, <1>15, <1>16, <1>17, <1>18 DEF Next,
    ClientStep

(* ... of the client and its host ...                                       *)
LEMMA ClientTypesKept ==
  ASSUME Inv, [Next]_vars
  PROVE  ClientTypes'
<1>1. ASSUME NEW r \in Request, RequestNotification(r) PROVE ClientTypes'
  BY <1>1, NotificationAssumption, Appended DEF RequestNotification,
      Accepts, ClientTypes, TypeOK, Inv, Status, RuntimeTypes, loop, host
<1>2. ASSUME NEW r \in Request, RefuseNotification(r) PROVE ClientTypes'
  BY <1>2, NotificationAssumption DEF RefuseNotification, ClientTypes,
      TypeOK, Inv, Status, wire, loop, host
<1>3. ASSUME NEW r \in Request, CloseNative(r) PROVE ClientTypes'
  BY <1>3, NotificationAssumption, TakenOff DEF CloseNative, ClientTypes,
      TypeOK, Inv, Status, runtime, wire, loop
<1>4. CASE Acknowledge
  BY <1>4, NotificationAssumption DEF Acknowledge, ClientTypes, TypeOK, Inv,
      Status, wire, host
<1>5. CASE Close
  BY <1>5, NotificationAssumption DEF Close, ClientTypes, TypeOK, Inv,
      Status, wire, loop, host
<1>6. CASE Exit
  BY <1>6, NotificationAssumption, Kept DEF Exit, ClientTypes, TypeOK, Inv,
      Status, loop, host
<1>7. CASE Start
  <2>1. app = "running" => UNCHANGED <<stream, client, current, receipt, memory, active>>
    BY <1>7 DEF Start, wire, loop
  <2>2. app # "running" =>
          /\ stream' = <<>> /\ client' = "idle" /\ current' = Nil /\ receipt' = Nil
          /\ memory' = <<>> /\ active' = <<>>
    BY <1>7 DEF Start
  <2>3. UNCHANGED <<shows, displayed>>
    BY <1>7 DEF Start
  <2>4. CASE app = "running"
    BY <2>1, <2>3, <2>4 DEF ClientTypes, TypeOK, Inv, Status
  <2>5. CASE app # "running"
    BY <2>2, <2>3, <2>5, NotificationAssumption DEF ClientTypes, TypeOK, Inv, Status
  <2> QED BY <2>4, <2>5
<1>8. CASE Connect
  BY <1>8, NotificationAssumption DEF Connect, Replayed, ClientTypes,
      TypeOK, Inv, Status, RuntimeTypes, runtime, host
<1>9. CASE HandleDuplicate
  <2>1. /\ stream' \in Seq(Request) /\ current' \in Request /\ client' = "posting"
        /\ receipt' \in Status /\ UNCHANGED <<memory, active, shows, displayed>>
    BY <1>9, Reads, AnswersAgain DEF HandleDuplicate, host
  <2> QED BY <2>1 DEF ClientTypes, TypeOK, Inv
<1>10. CASE HandleUnshown
  <2>1. /\ stream' \in Seq(Request) /\ current' \in Request /\ client' = "posting"
        /\ receipt' \in {"suppressed", "unavailable", "failed"}
        /\ Remembering(stream[1], receipt') /\ UNCHANGED <<active, shows, displayed>>
    BY <1>10, Reads, AnswersUnshown DEF HandleUnshown
  <2>2. receipt' \in Status
    BY <2>1 DEF Status
  <2>3. memory' \in Seq([event : Request, receipt : Status]) /\ Len(memory') <= MaxRemembered
    BY <2>1, NotificationAssumption DEF Remembering
  <2> QED BY <2>1, <2>2, <2>3 DEF ClientTypes, TypeOK, Inv
<1>11. CASE Submit
  <2>1. /\ Consume /\ client' = "handling" /\ receipt' = Nil
        /\ active' = Append(IF Len(active) < MaxActive THEN active ELSE Tail(active), Head(stream))
        /\ shows' = [shows EXCEPT ![Head(stream)] = @ + 1]
        /\ UNCHANGED <<memory, displayed>>
    BY <1>11 DEF Submit
  <2>2. /\ active \in Seq(Request) /\ Len(active) \in Nat /\ Len(active) <= MaxActive
        /\ MaxActive \in Nat \ {0}
    BY NotificationAssumption DEF Inv, TypeOK, ClientTypes
  <2>3. PICK room \in Seq(Request) :
          Len(room) < MaxActive /\ active' = Append(room, stream[1])
    <3>1. CASE Len(active) < MaxActive
      BY <2>1, <2>2, <3>1, Reads
    <3>2. CASE Len(active) >= MaxActive
      <4>1. active # <<>> /\ Len(active) = MaxActive
        BY <2>2, <3>2
      <4>2. Tail(active) \in Seq(Request) /\ Len(Tail(active)) = Len(active) - 1
        BY <2>2, <4>1, Shortened
      <4>3. Len(Tail(active)) < MaxActive
        BY <2>2, <4>1, <4>2
      <4>4. active' = Append(Tail(active), stream[1])
        BY <2>1, <2>2, <3>2, Reads
      <4> QED BY <4>2, <4>3, <4>4
    <3>3. Len(active) < MaxActive \/ Len(active) >= MaxActive
      BY <2>2
    <3> QED BY <3>1, <3>2, <3>3
  <2>4. active' \in Seq(Request) /\ Len(active') <= MaxActive
    <3>1. stream[1] \in Request /\ Len(room) \in Nat
      BY <2>1, Reads
    <3>2. active' \in Seq(Request) /\ Len(active') = Len(room) + 1
      BY <2>3, <3>1, Appended
    <3> QED BY <2>2, <2>3, <3>1, <3>2
  <2>5. shows' \in [Request -> Nat]
    <3>1. shows \in [Request -> Nat] /\ stream[1] \in Request /\ Head(stream) = stream[1]
      BY <2>1, Reads DEF Inv, TypeOK, ClientTypes
    <3>2. shows[stream[1]] \in Nat
      BY <3>1
    <3>3. shows' = [shows EXCEPT ![stream[1]] = shows[stream[1]] + 1]
      BY <2>1, <3>1
    <3> QED BY <3>1, <3>2, <3>3
  <2>6. stream' \in Seq(Request) /\ current' \in Request
    BY <2>1, Reads
  <2> QED BY <2>1, <2>4, <2>5, <2>6 DEF ClientTypes, TypeOK, Inv, Status
<1>12. CASE PostAnswered
  BY <1>12, NotificationAssumption DEF PostAnswered, ClientTypes, TypeOK,
      Inv, Status, runtime, wire, host
<1>13. CASE EndOfStream \/ PostRefused \/ PostLost
  <2>1. /\ client' = "idle" /\ connected' = FALSE /\ stream' = <<>>
        /\ current' = Nil /\ receipt' = Nil
        /\ UNCHANGED <<runtime, peer, host, app, restarts>>
    BY <1>13, Leaves DEF Reconnect
  <2> QED BY <2>1, NotificationAssumption DEF ClientTypes, TypeOK, Inv,
      Status, runtime, host
<1>14. CASE Display
  BY <1>14, NotificationAssumption DEF Display, ClientTypes, TypeOK, Inv,
      Status, ClientInv, runtime, wire, loop
<1>15. CASE ShowEvent \/ FailedEvent \/ Timeout
  BY <1>15, NotificationAssumption, Settles DEF ClientTypes, TypeOK, Inv,
      Status, Remembering, runtime, wire
<1>16. CASE Break
  BY <1>16, NotificationAssumption, Kept DEF Break, ClientTypes, TypeOK,
      Inv, Status, runtime, loop, host
<1>17. CASE Quit
  BY <1>17, NotificationAssumption DEF Quit, ClientTypes, TypeOK, Inv,
      Status, runtime, loop
<1>18. CASE UNCHANGED vars
  BY <1>18 DEF ClientTypes, TypeOK, Inv, Status, vars, runtime, wire, loop,
      host
<1> QED BY <1>1, <1>2, <1>3, <1>4, <1>5, <1>6, <1>7, <1>8, <1>9, <1>10,
    <1>11, <1>12, <1>13, <1>14, <1>15, <1>16, <1>17, <1>18 DEF Next,
    ClientStep

(* ... of what is known of the connection and the App ...                   *)
LEMMA FlagsKept ==
  ASSUME Inv, [Next]_vars
  PROVE  Flags'
<1>1. ASSUME NEW r \in Request, RequestNotification(r) PROVE Flags'
  BY <1>1 DEF RequestNotification, Accepts, Flags, TypeOK, Inv, loop, host
<1>2. ASSUME NEW r \in Request, RefuseNotification(r) PROVE Flags'
  BY <1>2 DEF RefuseNotification, Flags, TypeOK, Inv, wire, loop, host
<1>3. ASSUME NEW r \in Request, CloseNative(r) PROVE Flags'
  BY <1>3 DEF CloseNative, Flags, TypeOK, Inv, runtime, wire, loop
<1>4. CASE Acknowledge
  BY <1>4 DEF Acknowledge, Flags, TypeOK, Inv, wire, host
<1>5. CASE Close
  BY <1>5 DEF Close, Flags, TypeOK, Inv, wire, loop, host
<1>6. CASE Exit
  BY <1>6 DEF Exit, Flags, TypeOK, Inv, loop, host
<1>7. CASE Start
  BY <1>7 DEF Start, Flags, TypeOK, Inv, wire, loop
<1>8. CASE Connect
  BY <1>8 DEF Connect, Replayed, Flags, TypeOK, Inv, runtime, host
<1>9. CASE HandleDuplicate
  BY <1>9 DEF HandleDuplicate, Flags, TypeOK, Inv, runtime, host
<1>10. CASE HandleUnshown
  BY <1>10 DEF HandleUnshown, Flags, TypeOK, Inv, runtime
<1>11. CASE Submit
  BY <1>11 DEF Submit, Flags, TypeOK, Inv, runtime
<1>12. CASE PostAnswered
  BY <1>12 DEF PostAnswered, Flags, TypeOK, Inv, runtime, wire, host
<1>13. CASE EndOfStream \/ PostRefused \/ PostLost
  <2>1. /\ client' = "idle" /\ connected' = FALSE /\ stream' = <<>>
        /\ current' = Nil /\ receipt' = Nil
        /\ UNCHANGED <<runtime, peer, host, app, restarts>>
    BY <1>13, Leaves DEF Reconnect
  <2> QED BY <2>1 DEF Flags, TypeOK, Inv, runtime, host
<1>14. CASE Display
  BY <1>14 DEF Display, Flags, TypeOK, Inv, runtime, wire, loop
<1>15. CASE ShowEvent \/ FailedEvent \/ Timeout
  BY <1>15, Settles DEF Flags, TypeOK, Inv, runtime, wire
<1>16. CASE Break
  BY <1>16 DEF Break, Flags, TypeOK, Inv, runtime, loop, host
<1>17. CASE Quit
  BY <1>17 DEF Quit, Flags, TypeOK, Inv, runtime, loop
<1>18. CASE UNCHANGED vars
  BY <1>18 DEF Flags, TypeOK, Inv, vars, runtime, wire, loop, host
<1> QED BY <1>1, <1>2, <1>3, <1>4, <1>5, <1>6, <1>7, <1>8, <1>9, <1>10,
    <1>11, <1>12, <1>13, <1>14, <1>15, <1>16, <1>17, <1>18 DEF Next,
    ClientStep

(* ... and the bounds on what goes wrong.                                   *)
LEMMA BoundsKept ==
  ASSUME Inv, [Next]_vars
  PROVE  Bounds'
<1>1. ASSUME NEW r \in Request, RequestNotification(r) PROVE Bounds'
  BY <1>1, NotificationAssumption DEF RequestNotification, Accepts, Bounds,
      TypeOK, Inv, Faulty, loop, host
<1>2. ASSUME NEW r \in Request, RefuseNotification(r) PROVE Bounds'
  BY <1>2, NotificationAssumption DEF RefuseNotification, Bounds, TypeOK,
      Inv, Faulty, wire, loop, host
<1>3. ASSUME NEW r \in Request, CloseNative(r) PROVE Bounds'
  BY <1>3, NotificationAssumption DEF CloseNative, Bounds, TypeOK, Inv,
      runtime, wire, loop
<1>4. CASE Acknowledge
  BY <1>4, NotificationAssumption, Acknowledges DEF Acknowledge, Bounds,
      TypeOK, Inv, Refused, Acknowledged, wire, host
<1>5. CASE Close
  BY <1>5, NotificationAssumption, PendingAre, ResolvedAre DEF Close,
      Bounds, TypeOK, Inv, Status, wire, loop, host
<1>6. CASE Exit
  BY <1>6, NotificationAssumption DEF Exit, Bounds, TypeOK, Inv, loop, host
<1>7. CASE Start
  BY <1>7, NotificationAssumption DEF Start, Bounds, TypeOK, Inv, wire, loop
<1>8. CASE Connect
  BY <1>8, NotificationAssumption DEF Connect, Replayed, Bounds, TypeOK,
      Inv, runtime, host
<1>9. CASE HandleDuplicate
  BY <1>9, NotificationAssumption DEF HandleDuplicate, Bounds, TypeOK, Inv,
      runtime, host
<1>10. CASE HandleUnshown
  BY <1>10, NotificationAssumption DEF HandleUnshown, Bounds, TypeOK, Inv,
      runtime
<1>11. CASE Submit
  BY <1>11, NotificationAssumption DEF Submit, Bounds, TypeOK, Inv, runtime
<1>12. CASE PostAnswered
  BY <1>12, NotificationAssumption DEF PostAnswered, Bounds, TypeOK, Inv,
      runtime, wire, host
<1>13. CASE EndOfStream \/ PostRefused \/ PostLost
  <2>1. /\ client' = "idle" /\ connected' = FALSE /\ stream' = <<>>
        /\ current' = Nil /\ receipt' = Nil
        /\ UNCHANGED <<runtime, peer, host, app, restarts>>
    BY <1>13, Leaves DEF Reconnect
  <2>2. faults' = faults \/ Faulty
    BY <1>13, Leaves
  <2> QED BY <2>1, <2>2, NotificationAssumption DEF Bounds, TypeOK, Inv,
      Faulty, runtime, host
<1>14. CASE Display
  BY <1>14, NotificationAssumption DEF Display, Bounds, TypeOK, Inv,
      runtime, wire, loop
<1>15. CASE ShowEvent \/ FailedEvent \/ Timeout
  BY <1>15, NotificationAssumption, Settles DEF Bounds, TypeOK, Inv,
      runtime, wire
<1>16. CASE Break
  BY <1>16, NotificationAssumption DEF Break, Bounds, TypeOK, Inv, Faulty,
      runtime, loop, host
<1>17. CASE Quit
  BY <1>17, NotificationAssumption DEF Quit, Bounds, TypeOK, Inv, runtime,
      loop
<1>18. CASE UNCHANGED vars
  BY <1>18 DEF Bounds, TypeOK, Inv, vars, runtime, wire, loop, host
<1> QED BY <1>1, <1>2, <1>3, <1>4, <1>5, <1>6, <1>7, <1>8, <1>9, <1>10,
    <1>11, <1>12, <1>13, <1>14, <1>15, <1>16, <1>17, <1>18 DEF Next,
    ClientStep

-----------------------------------------------------------------------------
(* The table.                                                               *)
LEMMA TableKept ==
  ASSUME Inv, [Next]_vars
  PROVE  TableInv'
<1>1. ASSUME NEW r \in Request, RequestNotification(r) PROVE TableInv'
  <2>1. Joining(r) /\ router' = router
    BY <1>1, Joins DEF RequestNotification
  <2>2. Len(pending) \in Nat /\ Apart(pending) /\ router = "open"
    BY <2>1, EventsAre DEF Inv, TableInv, Joining
  <2>3. Apart(pending')
    BY <2>1, <2>2 DEF Joining, Apart
  <2>4. ASSUME NEW q \in Request
        PROVE answer'[q] = "waiting" <=> \E i \in 1..Len(pending') : pending'[i] = q
    <3>1. CASE q = r
      <4>1. Len(pending) + 1 \in 1..Len(pending')
        BY <2>1, <2>2 DEF Joining
      <4> QED BY <2>1, <3>1, <4>1 DEF Joining
    <3>2. CASE q # r
      <4>1. answer'[q] = "waiting" <=> \E i \in 1..Len(pending) : pending[i] = q
        BY <2>1, <3>2 DEF Joining, Inv, TableInv
      <4>2. (\E i \in 1..Len(pending') : pending'[i] = q)
              <=> \E i \in 1..Len(pending) : pending[i] = q
        BY <2>1, <2>2, <3>2 DEF Joining
      <4> QED BY <4>1, <4>2
    <3> QED BY <3>1, <3>2
  <2> QED BY <2>1, <2>2, <2>3, <2>4 DEF TableInv
<1>2. ASSUME NEW r \in Request, RefuseNotification(r) PROVE TableInv'
  BY <1>2 DEF RefuseNotification, TableInv, Inv, Apart, TypeOK,
      RuntimeTypes, wire, loop, host
<1>3. ASSUME NEW r \in Request, CloseNative(r) PROVE TableInv'
  BY <1>3 DEF CloseNative, TableInv, Inv, runtime, wire, loop
<1>4. CASE Acknowledge
  <2>1. CASE Refused
    BY <1>4, <2>1 DEF Acknowledge, Refused, TableInv, Inv, Apart
  <2>2. CASE Acknowledged
    <3>1. Len(pending) \in Nat /\ Apart(pending) /\ router' = "open"
      BY <1>4, <2>2, EventsAre DEF Acknowledge, Inv, TableInv, Acknowledged
    <3>2. Apart(pending')
      BY <2>2, <3>1 DEF Acknowledged, Apart
    <3>3. ASSUME NEW q \in Request
          PROVE answer'[q] = "waiting" <=> \E i \in 1..Len(pending') : pending'[i] = q
      <4>1. CASE q = current
        <5>1. answer'[q] # "waiting"
          BY <2>2, <4>1 DEF Acknowledged, Status
        <5>2. \A i \in 1..Len(pending') : pending'[i] # pending[1]
          BY <2>2, <3>1 DEF Acknowledged, Apart
        <5> QED BY <2>2, <4>1, <5>1, <5>2 DEF Acknowledged
      <4>2. CASE q # current
        <5>1. answer'[q] = "waiting" <=> \E i \in 1..Len(pending) : pending[i] = q
          BY <2>2, <4>2 DEF Acknowledged, Inv, TableInv
        <5>2. ASSUME NEW i \in 1..Len(pending), pending[i] = q
              PROVE \E j \in 1..Len(pending') : pending'[j] = q
          <6>1. i - 1 \in 1..Len(pending') /\ pending'[i - 1] = pending[(i - 1) + 1]
            BY <2>2, <3>1, <4>2, <5>2 DEF Acknowledged
          <6>2. (i - 1) + 1 = i
            OBVIOUS
          <6> QED BY <5>2, <6>1, <6>2
        <5>3. ASSUME NEW j \in 1..Len(pending'), pending'[j] = q
              PROVE \E i \in 1..Len(pending) : pending[i] = q
          <6>1. j + 1 \in 1..Len(pending) /\ pending[j + 1] = q
            BY <2>2, <3>1, <5>3 DEF Acknowledged
          <6> QED BY <6>1
        <5> QED BY <5>1, <5>2, <5>3
      <4> QED BY <4>1, <4>2
    <3> QED BY <3>1, <3>2, <3>3 DEF TableInv
  <2> QED BY <1>4, <2>1, <2>2, Acknowledges
<1>5. CASE Close
  BY <1>5, PendingAre, ResolvedAre DEF Close, TableInv, Inv, Apart, Status,
      wire, loop, host
<1>6. CASE Exit
  BY <1>6 DEF Exit, TableInv, Inv, Apart, TypeOK, RuntimeTypes, loop, host
<1>7. CASE Start
  BY <1>7 DEF Start, TableInv, Inv, Apart, wire, loop
<1>8. CASE Connect
  BY <1>8 DEF Connect, Replayed, TableInv, Inv, runtime, host
<1>9. CASE HandleDuplicate
  BY <1>9 DEF HandleDuplicate, TableInv, Inv, runtime, host
<1>10. CASE HandleUnshown
  BY <1>10 DEF HandleUnshown, TableInv, Inv, runtime
<1>11. CASE Submit
  BY <1>11 DEF Submit, TableInv, Inv, runtime
<1>12. CASE PostAnswered
  BY <1>12 DEF PostAnswered, TableInv, Inv, runtime, wire, host
<1>13. CASE EndOfStream \/ PostRefused \/ PostLost
  <2>1. /\ client' = "idle" /\ connected' = FALSE /\ stream' = <<>>
        /\ current' = Nil /\ receipt' = Nil
        /\ UNCHANGED <<runtime, peer, host, app, restarts>>
    BY <1>13, Leaves DEF Reconnect
  <2> QED BY <2>1 DEF TableInv, Inv, runtime, host
<1>14. CASE Display
  BY <1>14 DEF Display, TableInv, Inv, runtime, wire, loop
<1>15. CASE ShowEvent \/ FailedEvent \/ Timeout
  BY <1>15, Settles DEF TableInv, Inv, runtime, wire
<1>16. CASE Break
  BY <1>16 DEF Break, TableInv, Inv, runtime, loop, host
<1>17. CASE Quit
  BY <1>17 DEF Quit, TableInv, Inv, runtime, loop
<1>18. CASE UNCHANGED vars
  BY <1>18 DEF TableInv, Inv, vars, runtime, wire, loop, host
<1> QED BY <1>1, <1>2, <1>3, <1>4, <1>5, <1>6, <1>7, <1>8, <1>9, <1>10,
    <1>11, <1>12, <1>13, <1>14, <1>15, <1>16, <1>17, <1>18 DEF Next,
    ClientStep

(* The client.                                                              *)
LEMMA ClientKept ==
  ASSUME Inv, [Next]_vars
  PROVE  ClientInv'
<1>1. ASSUME NEW r \in Request, RequestNotification(r) PROVE ClientInv'
  BY <1>1, NotificationAssumption DEF RequestNotification, Accepts,
      ClientInv, Inv, loop, host
<1>2. ASSUME NEW r \in Request, RefuseNotification(r) PROVE ClientInv'
  BY <1>2, NotificationAssumption DEF RefuseNotification, ClientInv, Inv,
      wire, loop, host
<1>3. ASSUME NEW r \in Request, CloseNative(r) PROVE ClientInv'
  BY <1>3, NotificationAssumption DEF CloseNative, ClientInv, Inv, runtime,
      wire, loop
<1>4. CASE Acknowledge
  BY <1>4, NotificationAssumption DEF Acknowledge, ClientInv, Inv, wire,
      host
<1>5. CASE Close
  BY <1>5, NotificationAssumption DEF Close, ClientInv, Inv, wire, loop,
      host
<1>6. CASE Exit
  BY <1>6, NotificationAssumption, Kept DEF Exit, ClientInv, Inv, loop, host
<1>7. CASE Start
  BY <1>7, NotificationAssumption DEF Start, ClientInv, Inv, wire, loop
<1>8. CASE Connect
  BY <1>8, NotificationAssumption DEF Connect, Replayed, ClientInv, Inv,
      runtime, host
<1>9. CASE HandleDuplicate
  BY <1>9, NotificationAssumption, Reads, AnswersAgain DEF HandleDuplicate,
      ClientInv, Inv, runtime, host
<1>10. CASE HandleUnshown
  BY <1>10, NotificationAssumption, Reads, AnswersUnshown DEF HandleUnshown,
      ClientInv, Inv, Status, runtime
<1>11. CASE Submit
  BY <1>11, NotificationAssumption, Reads DEF Submit, ClientInv, Inv,
      runtime
<1>12. CASE PostAnswered
  BY <1>12, NotificationAssumption DEF PostAnswered, ClientInv, Inv,
      runtime, wire, host
<1>13. CASE EndOfStream \/ PostRefused \/ PostLost
  <2>1. /\ client' = "idle" /\ connected' = FALSE /\ stream' = <<>>
        /\ current' = Nil /\ receipt' = Nil
        /\ UNCHANGED <<runtime, peer, host, app, restarts>>
    BY <1>13, Leaves DEF Reconnect
  <2> QED BY <2>1, NotificationAssumption DEF ClientInv, Inv, runtime, host
<1>14. CASE Display
  BY <1>14, NotificationAssumption DEF Display, ClientInv, Inv, runtime,
      wire, loop
<1>15. CASE ShowEvent \/ FailedEvent \/ Timeout
  BY <1>15, NotificationAssumption, Settles DEF ClientInv, Inv, Status,
      TypeOK, ClientTypes, runtime, wire
<1>16. CASE Break
  BY <1>16, NotificationAssumption DEF Break, ClientInv, Inv, runtime, loop,
      host
<1>17. CASE Quit
  BY <1>17, NotificationAssumption DEF Quit, ClientInv, Inv, runtime, loop
<1>18. CASE UNCHANGED vars
  BY <1>18 DEF ClientInv, Inv, vars, runtime, wire, loop, host
<1> QED BY <1>1, <1>2, <1>3, <1>4, <1>5, <1>6, <1>7, <1>8, <1>9, <1>10,
    <1>11, <1>12, <1>13, <1>14, <1>15, <1>16, <1>17, <1>18 DEF Next,
    ClientStep

(* The stream.                                                              *)
LEMMA StreamKept ==
  ASSUME Inv, [Next]_vars
  PROVE  StreamInv'
<1>1. ASSUME NEW r \in Request, RequestNotification(r) PROVE StreamInv'
  <2>1. Joining(r) /\ current' = current
    BY <1>1, Joins DEF RequestNotification, loop
  <2>2. Len(stream) \in Nat /\ Apart(stream) /\ \A i \in 1..Len(stream) : stream[i] # current
    BY EventsAre DEF Inv, StreamInv
  <2>3. \A i \in 1..Len(stream') :
          \/ i \in 1..Len(stream) /\ stream'[i] = stream[i]
          \/ i = Len(stream) + 1 /\ stream'[i] = r
    BY <2>1, <2>2, EventsAre DEF Joining, Inv, TypeOK
  <2>4. \A i \in 1..Len(stream) : stream[i] # r
    BY <2>1 DEF Joining
  <2>5. Apart(stream')
    BY <2>2, <2>3, <2>4 DEF Apart
  <2> QED BY <2>1, <2>2, <2>3, <2>5 DEF StreamInv, Joining
<1>2. ASSUME NEW r \in Request, RefuseNotification(r) PROVE StreamInv'
  BY <1>2 DEF RefuseNotification, StreamInv, Apart, Inv, wire, loop, host
<1>3. ASSUME NEW r \in Request, CloseNative(r) PROVE StreamInv'
  BY <1>3 DEF CloseNative, StreamInv, Apart, Inv, runtime, wire, loop
<1>4. CASE Acknowledge
  BY <1>4 DEF Acknowledge, StreamInv, Apart, Inv, wire, host
<1>5. CASE Close
  BY <1>5 DEF Close, StreamInv, Apart, Inv, wire, loop, host
<1>6. CASE Exit
  <2>1. Cut
    BY <1>6, Cuts
  <2>2. current' = current \/ current' = Nil
    BY <1>6 DEF Exit, loop
  <2>3. Len(stream) \in Nat /\ \A i \in 1..Len(stream) : stream[i] # Nil
    BY EventsAre
  <2> QED BY <2>1, <2>2, <2>3 DEF StreamInv, Apart, Cut, Inv
<1>7. CASE Start
  <2>1. Cut
    BY <1>7, Cuts
  <2>2. current' = current \/ current' = Nil
    BY <1>7 DEF Start, loop
  <2>3. Len(stream) \in Nat /\ \A i \in 1..Len(stream) : stream[i] # Nil
    BY EventsAre
  <2> QED BY <2>1, <2>2, <2>3 DEF StreamInv, Apart, Cut, Inv
<1>8. CASE Connect
  <2>1. stream' = pending /\ current' = current /\ client = "idle"
    BY <1>8 DEF Connect, Replayed
  <2>2. current = Nil /\ Apart(pending)
    BY <2>1 DEF Inv, ClientInv, TableInv
  <2>3. \A i \in 1..Len(pending) : pending[i] # Nil
    BY EventsAre
  <2> QED BY <2>1, <2>2, <2>3 DEF StreamInv, Apart
<1>9. CASE HandleDuplicate
  <2>1. /\ current' = stream[1] /\ Len(stream') = Len(stream) - 1 /\ Len(stream) > 0
        /\ \A i \in 1..Len(stream') : stream'[i] = stream[i + 1]
    BY <1>9, Reads DEF HandleDuplicate
  <2>2. Len(stream) \in Nat /\ Apart(stream)
    BY EventsAre DEF Inv, StreamInv
  <2> QED BY <2>1, <2>2 DEF StreamInv, Apart
<1>10. CASE HandleUnshown
  <2>1. /\ current' = stream[1] /\ Len(stream') = Len(stream) - 1 /\ Len(stream) > 0
        /\ \A i \in 1..Len(stream') : stream'[i] = stream[i + 1]
    BY <1>10, Reads DEF HandleUnshown
  <2>2. Len(stream) \in Nat /\ Apart(stream)
    BY EventsAre DEF Inv, StreamInv
  <2> QED BY <2>1, <2>2 DEF StreamInv, Apart
<1>11. CASE Submit
  <2>1. /\ current' = stream[1] /\ Len(stream') = Len(stream) - 1 /\ Len(stream) > 0
        /\ \A i \in 1..Len(stream') : stream'[i] = stream[i + 1]
    BY <1>11, Reads DEF Submit
  <2>2. Len(stream) \in Nat /\ Apart(stream)
    BY EventsAre DEF Inv, StreamInv
  <2> QED BY <2>1, <2>2 DEF StreamInv, Apart
<1>12. CASE PostAnswered
  BY <1>12, EventsAre DEF PostAnswered, StreamInv, Apart, Inv, runtime,
      wire, host
<1>13. CASE EndOfStream \/ PostRefused \/ PostLost
  <2>1. /\ client' = "idle" /\ connected' = FALSE /\ stream' = <<>>
        /\ current' = Nil /\ receipt' = Nil
        /\ UNCHANGED <<runtime, peer, host, app, restarts>>
    BY <1>13, Leaves DEF Reconnect
  <2> QED BY <2>1 DEF StreamInv, Apart, Inv, runtime, host
<1>14. CASE Display
  BY <1>14 DEF Display, StreamInv, Apart, Inv, runtime, wire, loop
<1>15. CASE ShowEvent \/ FailedEvent \/ Timeout
  BY <1>15, Settles DEF StreamInv, Apart, Inv, runtime, wire
<1>16. CASE Break
  <2>1. Cut
    BY <1>16, Cuts
  <2>2. current' = current \/ current' = Nil
    BY <1>16 DEF Break, loop
  <2>3. Len(stream) \in Nat /\ \A i \in 1..Len(stream) : stream[i] # Nil
    BY EventsAre
  <2> QED BY <2>1, <2>2, <2>3 DEF StreamInv, Apart, Cut, Inv
<1>17. CASE Quit
  <2>1. Cut
    BY <1>17, Cuts
  <2>2. current' = current \/ current' = Nil
    BY <1>17 DEF Quit, loop
  <2>3. Len(stream) \in Nat /\ \A i \in 1..Len(stream) : stream[i] # Nil
    BY EventsAre
  <2> QED BY <2>1, <2>2, <2>3 DEF StreamInv, Apart, Cut, Inv
<1>18. CASE UNCHANGED vars
  BY <1>18 DEF StreamInv, Apart, Inv, vars, runtime, wire, loop, host
<1> QED BY <1>1, <1>2, <1>3, <1>4, <1>5, <1>6, <1>7, <1>8, <1>9, <1>10,
    <1>11, <1>12, <1>13, <1>14, <1>15, <1>16, <1>17, <1>18 DEF Next,
    ClientStep

(* The step of the client with the table.                                   *)
LEMMA StepKept ==
  ASSUME Inv, [Next]_vars
  PROVE  StepInv'
<1>1. ASSUME NEW r \in Request, RequestNotification(r) PROVE StepInv'
  <2>1. Joining(r) /\ UNCHANGED <<router, connected, peer, client, current>>
    BY <1>1, Joins DEF RequestNotification, loop
  <2>2. Len(stream) \in Nat /\ Len(pending) \in Nat
    BY EventsAre
  <2>3. Taken' = Taken /\ Taken \in {0, 1}
    BY <2>1 DEF Taken
  <2>4. ASSUME peer
        PROVE /\ client # "refused"
              /\ Taken + Len(stream') <= Len(pending')
              /\ connected => Taken + Len(stream') = Len(pending')
              /\ \A i \in 1..Len(stream') : stream'[i] = pending'[i + Taken]
              /\ Taken = 1 => pending'[1] = current
    <3>1. /\ client # "refused"
          /\ Taken + Len(stream) <= Len(pending)
          /\ connected => Taken + Len(stream) = Len(pending)
          /\ \A i \in 1..Len(stream) : stream[i] = pending[i + Taken]
          /\ Taken = 1 => pending[1] = current
      BY <2>1, <2>4 DEF Inv, StepInv, Joining
    <3>2. \A i \in 1..Len(stream) : i + Taken \in 1..Len(pending)
      BY <2>2, <2>3, <3>1
    <3>3. \A i \in 1..Len(stream) : stream'[i] = pending'[i + Taken]
      <4> TAKE i \in 1..Len(stream)
      <4>1. pending'[i + Taken] = pending[i + Taken] /\ stream'[i] = stream[i]
        BY <2>1, <3>2 DEF Joining
      <4> QED BY <3>1, <4>1
    <3>4. CASE connected
      <4>1. Len(stream') = Len(stream) + 1 /\ Len(pending') = Len(pending) + 1
        BY <2>1, <3>4 DEF Joining
      <4>2. Len(stream) + 1 + Taken = Len(pending) + 1
        BY <2>2, <2>3, <3>1, <3>4
      <4>3. stream'[Len(stream) + 1] = pending'[Len(stream) + 1 + Taken]
        BY <2>1, <3>4, <4>2 DEF Joining
      <4>4. \A i \in 1..Len(stream') : stream'[i] = pending'[i + Taken]
        BY <2>2, <3>3, <4>1, <4>3
      <4>5. Taken = 1 => pending'[1] = current
        BY <2>1, <2>2, <3>1 DEF Joining
      <4> QED BY <2>2, <2>3, <3>1, <3>4, <4>1, <4>4, <4>5
    <3>5. CASE ~connected
      <4>1. Len(stream') = Len(stream) /\ Len(pending') = Len(pending) + 1
        BY <2>1, <3>5 DEF Joining
      <4>2. Taken = 1 => pending'[1] = current
        BY <2>1, <2>2, <3>1 DEF Joining
      <4> QED BY <2>2, <2>3, <3>1, <3>5, <3>3, <4>1, <4>2
    <3> QED BY <3>4, <3>5
  <2>5. ASSUME ~peer
        PROVE \A i \in 1..Len(pending') :
                /\ pending'[i] # current
                /\ \A j \in 1..Len(stream') : stream'[j] # pending'[i]
    <3>1. ~connected /\ Len(stream') = Len(stream)
      BY <2>1, <2>5 DEF Inv, ClientInv, Joining
    <3>2. \A i \in 1..Len(pending') :
            \/ i \in 1..Len(pending) /\ pending'[i] = pending[i]
            \/ pending'[i] = r
      BY <2>1, <2>2 DEF Joining
    <3> QED BY <2>1, <2>2, <2>5, <3>1, <3>2 DEF Joining, Inv, StepInv
  <2> QED BY <2>1, <2>3, <2>4, <2>5 DEF StepInv
<1>2. ASSUME NEW r \in Request, RefuseNotification(r) PROVE StepInv'
  BY <1>2 DEF RefuseNotification, StepInv, Taken, Inv, wire, loop, host
<1>3. ASSUME NEW r \in Request, CloseNative(r) PROVE StepInv'
  BY <1>3 DEF CloseNative, StepInv, Taken, Inv, runtime, wire, loop
<1>4. CASE Acknowledge
  <2>1. client = "posting" /\ peer /\ UNCHANGED <<router, connected, stream, peer, current>>
    BY <1>4 DEF Acknowledge, wire
  <2>2. CASE Refused
    <3>1. router # "open"
      <4>1. SUFFICES ASSUME router = "open" PROVE FALSE
        OBVIOUS
      <4>2. pending[1] = current /\ Len(pending) > 0
        BY <2>1, <4>1, EventsAre DEF Inv, StepInv, Taken
      <4> QED BY <2>2, <4>2, EventsAre, PendingAre DEF Refused
    <3> QED BY <2>1, <3>1 DEF StepInv
  <2>3. CASE Acknowledged
    <3>1. Taken = 1 /\ Taken' = 0 /\ router = "open"
      BY <2>1, <2>3 DEF Taken, Acknowledged
    <3>2. /\ 1 + Len(stream) <= Len(pending)
          /\ connected => 1 + Len(stream) = Len(pending)
          /\ \A i \in 1..Len(stream) : stream[i] = pending[i + 1]
      BY <2>1, <3>1 DEF Inv, StepInv
    <3>3. \A i \in 1..Len(stream) : stream[i] = pending'[i]
      BY <2>3, <3>2, EventsAre DEF Acknowledged
    <3>4. /\ client' # "refused" /\ Len(pending') = Len(pending) - 1
      BY <2>3 DEF Acknowledged
    <3> QED BY <2>1, <3>1, <3>2, <3>3, <3>4, EventsAre DEF StepInv
  <2> QED BY <1>4, <2>2, <2>3, Acknowledges
<1>5. CASE Close
  <2>1. router' = "closed" /\ pending' = <<>>
    BY <1>5 DEF Close
  <2> QED BY <2>1 DEF StepInv
<1>6. CASE Exit
  <2>1. router' = "down" /\ pending' = <<>>
    BY <1>6 DEF Exit
  <2> QED BY <2>1 DEF StepInv
<1>7. CASE Start
  <2>1. router = "down" /\ pending' = pending /\ (peer' = peer \/ peer' = FALSE)
    BY <1>7 DEF Start, wire
  <2>2. pending = <<>> /\ ~peer
    BY <2>1 DEF Inv, TableInv, ClientInv
  <2> QED BY <2>1, <2>2 DEF StepInv
<1>8. CASE Connect
  <2>1. /\ client' = "reading" /\ connected' = TRUE /\ peer' = TRUE
        /\ stream' = pending /\ pending' = pending
    BY <1>8 DEF Connect, Replayed, runtime
  <2>2. Taken' = 0
    BY <2>1 DEF Taken
  <2> QED BY <2>1, <2>2, EventsAre DEF StepInv
<1>9. CASE HandleDuplicate
  <2>1. /\ client = "reading" /\ client' = "posting" /\ current' = stream[1]
        /\ Len(stream) > 0 /\ Len(stream') = Len(stream) - 1
        /\ \A i \in 1..Len(stream') : stream'[i] = stream[i + 1]
        /\ UNCHANGED <<router, pending, connected, peer>>
    BY <1>9, Reads DEF HandleDuplicate, runtime
  <2>2. Taken = 0 /\ Taken' = 1
    BY <2>1 DEF Taken
  <2>3. Len(stream) \in Nat /\ Len(pending) \in Nat
    BY EventsAre
  <2>4. ASSUME peer, router = "open"
        PROVE /\ 1 + Len(stream') <= Len(pending)
              /\ connected => 1 + Len(stream') = Len(pending)
              /\ \A i \in 1..Len(stream') : stream'[i] = pending[i + 1]
              /\ pending[1] = stream[1]
    <3>1. /\ Len(stream) <= Len(pending)
          /\ connected => Len(stream) = Len(pending)
          /\ \A i \in 1..Len(stream) : stream[i] = pending[i + 0]
      BY <2>2, <2>3, <2>4 DEF Inv, StepInv
    <3>2. \A i \in 1..Len(stream) : stream[i] = pending[i]
      BY <2>3, <3>1
    <3> QED BY <2>1, <2>3, <3>1, <3>2
  <2>5. ASSUME ~peer
        PROVE \A i \in 1..Len(pending) :
                /\ pending[i] # stream[1]
                /\ \A j \in 1..Len(stream') : stream'[j] # pending[i]
    <3>1. \A i \in 1..Len(pending) : \A j \in 1..Len(stream) : stream[j] # pending[i]
      BY <2>5 DEF Inv, StepInv
    <3> QED BY <2>1, <2>3, <3>1
  <2> QED BY <2>1, <2>2, <2>4, <2>5 DEF StepInv
<1>10. CASE HandleUnshown
  <2>1. /\ client = "reading" /\ client' = "posting" /\ current' = stream[1]
        /\ Len(stream) > 0 /\ Len(stream') = Len(stream) - 1
        /\ \A i \in 1..Len(stream') : stream'[i] = stream[i + 1]
        /\ UNCHANGED <<router, pending, connected, peer>>
    BY <1>10, Reads DEF HandleUnshown, runtime
  <2>2. Taken = 0 /\ Taken' = 1
    BY <2>1 DEF Taken
  <2>3. Len(stream) \in Nat /\ Len(pending) \in Nat
    BY EventsAre
  <2>4. ASSUME peer, router = "open"
        PROVE /\ 1 + Len(stream') <= Len(pending)
              /\ connected => 1 + Len(stream') = Len(pending)
              /\ \A i \in 1..Len(stream') : stream'[i] = pending[i + 1]
              /\ pending[1] = stream[1]
    <3>1. /\ Len(stream) <= Len(pending)
          /\ connected => Len(stream) = Len(pending)
          /\ \A i \in 1..Len(stream) : stream[i] = pending[i + 0]
      BY <2>2, <2>3, <2>4 DEF Inv, StepInv
    <3>2. \A i \in 1..Len(stream) : stream[i] = pending[i]
      BY <2>3, <3>1
    <3> QED BY <2>1, <2>3, <3>1, <3>2
  <2>5. ASSUME ~peer
        PROVE \A i \in 1..Len(pending) :
                /\ pending[i] # stream[1]
                /\ \A j \in 1..Len(stream') : stream'[j] # pending[i]
    <3>1. \A i \in 1..Len(pending) : \A j \in 1..Len(stream) : stream[j] # pending[i]
      BY <2>5 DEF Inv, StepInv
    <3> QED BY <2>1, <2>3, <3>1
  <2> QED BY <2>1, <2>2, <2>4, <2>5 DEF StepInv
<1>11. CASE Submit
  <2>1. /\ client = "reading" /\ client' = "handling" /\ current' = stream[1]
        /\ Len(stream) > 0 /\ Len(stream') = Len(stream) - 1
        /\ \A i \in 1..Len(stream') : stream'[i] = stream[i + 1]
        /\ UNCHANGED <<router, pending, connected, peer>>
    BY <1>11, Reads DEF Submit, runtime
  <2>2. Taken = 0 /\ Taken' = 1
    BY <2>1 DEF Taken
  <2>3. Len(stream) \in Nat /\ Len(pending) \in Nat
    BY EventsAre
  <2>4. ASSUME peer, router = "open"
        PROVE /\ 1 + Len(stream') <= Len(pending)
              /\ connected => 1 + Len(stream') = Len(pending)
              /\ \A i \in 1..Len(stream') : stream'[i] = pending[i + 1]
              /\ pending[1] = stream[1]
    <3>1. /\ Len(stream) <= Len(pending)
          /\ connected => Len(stream) = Len(pending)
          /\ \A i \in 1..Len(stream) : stream[i] = pending[i + 0]
      BY <2>2, <2>3, <2>4 DEF Inv, StepInv
    <3>2. \A i \in 1..Len(stream) : stream[i] = pending[i]
      BY <2>3, <3>1
    <3> QED BY <2>1, <2>3, <3>1, <3>2
  <2>5. ASSUME ~peer
        PROVE \A i \in 1..Len(pending) :
                /\ pending[i] # stream[1]
                /\ \A j \in 1..Len(stream') : stream'[j] # pending[i]
    <3>1. \A i \in 1..Len(pending) : \A j \in 1..Len(stream) : stream[j] # pending[i]
      BY <2>5 DEF Inv, StepInv
    <3> QED BY <2>1, <2>3, <3>1
  <2> QED BY <2>1, <2>2, <2>4, <2>5 DEF StepInv
<1>12. CASE PostAnswered
  <2>1. /\ client = "acknowledged" /\ client' = "reading" /\ current' = Nil
        /\ UNCHANGED <<router, pending, connected, stream, peer>>
    BY <1>12 DEF PostAnswered, runtime, wire
  <2>2. Taken = 0 /\ Taken' = 0
    BY <2>1 DEF Taken
  <2> QED BY <2>1, <2>2, EventsAre DEF StepInv, Inv
<1>13. CASE EndOfStream \/ PostRefused \/ PostLost
  <2>1. /\ client' = "idle" /\ connected' = FALSE /\ stream' = <<>>
        /\ current' = Nil /\ pending' = pending
    BY <1>13, Leaves DEF Reconnect, runtime
  <2>2. Taken' = 0
    BY <2>1 DEF Taken
  <2> QED BY <2>1, <2>2, EventsAre DEF StepInv
<1>14. CASE Display
  BY <1>14 DEF Display, StepInv, Taken, Inv, runtime, wire, loop
<1>15. CASE ShowEvent \/ FailedEvent \/ Timeout
  <2>1. /\ client = "handling" /\ client' = "posting"
        /\ UNCHANGED <<router, pending, connected, stream, peer, current>>
    BY <1>15, Settles DEF runtime, wire
  <2>2. Taken = 1 /\ Taken' = 1
    BY <2>1 DEF Taken
  <2> QED BY <2>1, <2>2 DEF StepInv, Inv
<1>16. CASE Break
  <2>1. /\ Cut /\ connected' = FALSE
        /\ UNCHANGED <<router, pending, peer, client, current>>
    BY <1>16, Cuts DEF Break, runtime, loop
  <2>2. Taken' = Taken /\ Taken \in {0, 1}
    BY <2>1 DEF Taken
  <2>3. Len(stream) \in Nat /\ Len(pending) \in Nat
    BY EventsAre
  <2>4. /\ Len(stream') \in Nat /\ Len(stream') <= Len(stream)
        /\ \A i \in 1..Len(stream') : i \in 1..Len(stream) /\ stream'[i] = stream[i]
    BY <2>1, <2>3 DEF Cut
  <2>5. ASSUME peer, router = "open"
        PROVE /\ client # "refused" /\ Taken + Len(stream') <= Len(pending)
              /\ \A i \in 1..Len(stream') : stream'[i] = pending[i + Taken]
              /\ Taken = 1 => pending[1] = current
    <3>1. /\ client # "refused" /\ Taken + Len(stream) <= Len(pending)
          /\ \A i \in 1..Len(stream) : stream[i] = pending[i + Taken]
          /\ Taken = 1 => pending[1] = current
      BY <2>5 DEF Inv, StepInv
    <3>2. Taken + Len(stream') <= Len(pending)
      BY <2>2, <2>3, <2>4, <3>1
    <3> QED BY <2>4, <3>1, <3>2
  <2>6. ASSUME ~peer
        PROVE \A i \in 1..Len(pending) :
                /\ pending[i] # current
                /\ \A j \in 1..Len(stream') : stream'[j] # pending[i]
    BY <2>4, <2>6 DEF Inv, StepInv
  <2> QED BY <2>1, <2>2, <2>5, <2>6 DEF StepInv
<1>17. CASE Quit
  <2>1. /\ Cut /\ connected' = FALSE
        /\ UNCHANGED <<router, pending, peer, client, current>>
    BY <1>17, Cuts DEF Quit, runtime, loop
  <2>2. Taken' = Taken /\ Taken \in {0, 1}
    BY <2>1 DEF Taken
  <2>3. Len(stream) \in Nat /\ Len(pending) \in Nat
    BY EventsAre
  <2>4. /\ Len(stream') \in Nat /\ Len(stream') <= Len(stream)
        /\ \A i \in 1..Len(stream') : i \in 1..Len(stream) /\ stream'[i] = stream[i]
    BY <2>1, <2>3 DEF Cut
  <2>5. ASSUME peer, router = "open"
        PROVE /\ client # "refused" /\ Taken + Len(stream') <= Len(pending)
              /\ \A i \in 1..Len(stream') : stream'[i] = pending[i + Taken]
              /\ Taken = 1 => pending[1] = current
    <3>1. /\ client # "refused" /\ Taken + Len(stream) <= Len(pending)
          /\ \A i \in 1..Len(stream) : stream[i] = pending[i + Taken]
          /\ Taken = 1 => pending[1] = current
      BY <2>5 DEF Inv, StepInv
    <3>2. Taken + Len(stream') <= Len(pending)
      BY <2>2, <2>3, <2>4, <3>1
    <3> QED BY <2>4, <3>1, <3>2
  <2>6. ASSUME ~peer
        PROVE \A i \in 1..Len(pending) :
                /\ pending[i] # current
                /\ \A j \in 1..Len(stream') : stream'[j] # pending[i]
    BY <2>4, <2>6 DEF Inv, StepInv
  <2> QED BY <2>1, <2>2, <2>5, <2>6 DEF StepInv
<1>18. CASE UNCHANGED vars
  BY <1>18 DEF StepInv, Taken, Inv, vars, runtime, wire, loop, host
<1> QED BY <1>1, <1>2, <1>3, <1>4, <1>5, <1>6, <1>7, <1>8, <1>9, <1>10,
    <1>11, <1>12, <1>13, <1>14, <1>15, <1>16, <1>17, <1>18 DEF Next,
    ClientStep

(* What was asked for.                                                      *)
LEMMA AskedKept ==
  ASSUME Inv, [Next]_vars
  PROVE  AskedInv'
<1>1. ASSUME NEW r \in Request, RequestNotification(r) PROVE AskedInv'
  <2>1. Joining(r) /\ UNCHANGED <<current, shows, closedOut>>
    BY <1>1, Joins DEF RequestNotification, loop, host
  <2>2. \A i \in 1..Len(stream') :
          \/ i \in 1..Len(stream) /\ stream'[i] = stream[i] /\ stream[i] # r
          \/ stream'[i] = r
    BY <2>1, EventsAre DEF Joining, Inv, TypeOK
  <2>3. closedOut \subseteq Request /\ \A i \in 1..Len(stream) : stream[i] \in Request
    BY EventsAre DEF Inv, TypeOK, RuntimeTypes
  <2>4. \A i \in 1..Len(stream') :
          answer'[stream'[i]] \in {"waiting", "lost"} \/ stream'[i] \in closedOut
    BY <2>1, <2>2, <2>3 DEF AskedInv, Inv, Joining
  <2>5. \A q \in closedOut : answer'[q] = "unavailable"
    BY <2>1, <2>3 DEF AskedInv, Inv, Joining
  <2>6. \A q \in Request : answer'[q] = "unasked" => answer[q] = "unasked"
    BY <2>1 DEF Joining
  <2> QED BY <2>1, <2>4, <2>5, <2>6 DEF AskedInv, Inv
<1>2. ASSUME NEW r \in Request, RefuseNotification(r) PROVE AskedInv'
  <2>1. /\ answer[r] = "unasked" /\ answer' = [answer EXCEPT ![r] = "unavailable"]
        /\ UNCHANGED <<current, shows, closedOut, stream>>
    BY <1>2 DEF RefuseNotification, wire, loop, host
  <2>2. /\ closedOut \subseteq Request /\ \A i \in 1..Len(stream) : stream[i] \in Request
        /\ answer \in [Request -> Status \cup {"unasked", "waiting", "lost"}]
    BY EventsAre DEF Inv, TypeOK, RuntimeTypes
  <2>3. answer'[r] = "unavailable" /\ \A q \in Request : q # r => answer'[q] = answer[q]
    BY <2>1, <2>2
  <2> QED BY <2>1, <2>2, <2>3 DEF AskedInv, Inv
<1>3. ASSUME NEW r \in Request, CloseNative(r) PROVE AskedInv'
  BY <1>3 DEF CloseNative, AskedInv, Inv, runtime, wire, loop
<1>4. CASE Acknowledge
  <2>1. UNCHANGED <<current, shows, closedOut, stream>>
    BY <1>4 DEF Acknowledge, wire, host
  <2>2. CASE Refused
    BY <2>1, <2>2 DEF Refused, AskedInv, Inv
  <2>3. CASE Acknowledged
    <3>1. /\ closedOut \subseteq Request
          /\ \A i \in 1..Len(stream) : stream[i] \in Request /\ stream[i] # current
      BY EventsAre DEF Inv, TypeOK, RuntimeTypes, StreamInv
    <3>2. receipt # "unasked" /\ current \notin closedOut
      BY <2>3 DEF Acknowledged, Status, Inv, AskedInv
    <3>3. \A r \in Request : r # current => answer'[r] = answer[r]
      BY <2>3 DEF Acknowledged
    <3>4. answer'[current] # "unasked"
      BY <2>3, <3>2 DEF Acknowledged
    <3> QED BY <2>1, <3>1, <3>2, <3>3, <3>4 DEF AskedInv, Inv
  <2> QED BY <1>4, <2>2, <2>3, Acknowledges
<1>5. CASE Close
  <2>1. /\ UNCHANGED <<current, shows, stream>> /\ closedOut' = closedOut \cup Range(pending)
        /\ Resolve(Range(pending), "unavailable")
    BY <1>5 DEF Close, wire, loop, host
  <2>2. \A r \in Request : answer'[r] = IF r \in Range(pending) THEN "unavailable" ELSE answer[r]
    BY <2>1, PendingAre, ResolvedAre DEF Status, Inv
  <2>3. closedOut \subseteq Request /\ \A i \in 1..Len(stream) : stream[i] \in Request
    BY EventsAre DEF Inv, TypeOK, RuntimeTypes
  <2> QED BY <2>1, <2>2, <2>3, PendingAre DEF AskedInv, Inv
<1>6. CASE Exit
  <2>1. /\ Cut /\ UNCHANGED <<current, shows, closedOut>>
        /\ answer' = [r \in Request |-> IF answer[r] = "waiting" THEN "lost" ELSE answer[r]]
    BY <1>6, Cuts DEF Exit, loop, host
  <2>2. /\ closedOut \subseteq Request
        /\ \A i \in 1..Len(stream) : stream[i] \in Request
        /\ Len(stream) \in Nat
    BY EventsAre DEF Inv, TypeOK, RuntimeTypes
  <2>3. \A i \in 1..Len(stream') : i \in 1..Len(stream) /\ stream'[i] = stream[i]
    BY <2>1, <2>2 DEF Cut
  <2>4. \A i \in 1..Len(stream') :
          answer'[stream'[i]] \in {"waiting", "lost"} \/ stream'[i] \in closedOut
    BY <2>1, <2>2, <2>3 DEF AskedInv, Inv
  <2>5. \A r \in closedOut : answer'[r] = "unavailable"
    BY <2>1, <2>2 DEF AskedInv, Inv
  <2>6. \A r \in Request : answer'[r] = "unasked" => answer[r] = "unasked"
    BY <2>1
  <2> QED BY <2>1, <2>4, <2>5, <2>6 DEF AskedInv, Inv
<1>7. CASE Start
  <2>1. /\ Cut /\ UNCHANGED <<answer, closedOut, shows>>
        /\ current' = current \/ current' = Nil
    BY <1>7, Cuts DEF Start, loop
  <2>2. \A i \in 1..Len(stream') : i \in 1..Len(stream) /\ stream'[i] = stream[i]
    BY <2>1, EventsAre DEF Cut
  <2>3. \A i \in 1..Len(stream') :
          answer[stream'[i]] \in {"waiting", "lost"} \/ stream'[i] \in closedOut
    BY <2>2 DEF AskedInv, Inv
  <2>4. \A r \in Request : r # Nil
    BY NotificationAssumption
  <2> QED BY <2>1, <2>3, <2>4 DEF AskedInv, Inv
<1>8. CASE Connect
  BY <1>8, EventsAre DEF Connect, Replayed, AskedInv, Inv, runtime, host
<1>9. CASE HandleDuplicate
  <2>1. /\ current' = stream[1] /\ Len(stream') = Len(stream) - 1
        /\ stream[1] \in Request
        /\ \A i \in 1..Len(stream') : stream'[i] = stream[i + 1]
        /\ 1 \in 1..Len(stream) /\ UNCHANGED <<answer, closedOut>>
    BY <1>9, Reads, EventsAre DEF HandleDuplicate, runtime
  <2>2. answer[stream[1]] # "unasked"
    BY <2>1 DEF Inv, AskedInv
  <2>3. \A r \in Request : answer[r] = "unasked" => shows'[r] = 0 /\ r # stream[1]
    BY <1>9, <2>2 DEF HandleDuplicate, host, Inv, AskedInv
  <2>4. \A i \in 1..Len(stream') :
          answer[stream'[i]] \in {"waiting", "lost"} \/ stream'[i] \in closedOut
    BY <2>1, EventsAre DEF Inv, AskedInv
  <2> QED BY <2>1, <2>2, <2>3, <2>4 DEF AskedInv, Inv
<1>10. CASE HandleUnshown
  <2>1. /\ current' = stream[1] /\ Len(stream') = Len(stream) - 1
        /\ stream[1] \in Request
        /\ \A i \in 1..Len(stream') : stream'[i] = stream[i + 1]
        /\ 1 \in 1..Len(stream) /\ UNCHANGED <<answer, closedOut>>
    BY <1>10, Reads, EventsAre DEF HandleUnshown, runtime
  <2>2. answer[stream[1]] # "unasked"
    BY <2>1 DEF Inv, AskedInv
  <2>3. \A r \in Request : answer[r] = "unasked" => shows'[r] = 0 /\ r # stream[1]
    BY <1>10, <2>2 DEF HandleUnshown, Inv, AskedInv
  <2>4. \A i \in 1..Len(stream') :
          answer[stream'[i]] \in {"waiting", "lost"} \/ stream'[i] \in closedOut
    BY <2>1, EventsAre DEF Inv, AskedInv
  <2> QED BY <2>1, <2>2, <2>3, <2>4 DEF AskedInv, Inv
<1>11. CASE Submit
  <2>1. /\ current' = stream[1] /\ Len(stream') = Len(stream) - 1
        /\ stream[1] \in Request
        /\ \A i \in 1..Len(stream') : stream'[i] = stream[i + 1]
        /\ 1 \in 1..Len(stream) /\ UNCHANGED <<answer, closedOut>>
    BY <1>11, Reads, EventsAre DEF Submit, runtime
  <2>2. answer[stream[1]] # "unasked"
    BY <2>1 DEF Inv, AskedInv
  <2>3. \A r \in Request : answer[r] = "unasked" => shows'[r] = 0 /\ r # stream[1]
    <3>1. shows' = [shows EXCEPT ![stream[1]] = @ + 1] /\ shows \in [Request -> Nat]
      BY <1>11, Reads DEF Submit, Inv, TypeOK, ClientTypes
    <3> QED BY <2>2, <3>1 DEF Inv, AskedInv
  <2>4. \A i \in 1..Len(stream') :
          answer[stream'[i]] \in {"waiting", "lost"} \/ stream'[i] \in closedOut
    BY <2>1, EventsAre DEF Inv, AskedInv
  <2> QED BY <2>1, <2>2, <2>3, <2>4 DEF AskedInv, Inv
<1>12. CASE PostAnswered
  BY <1>12, NotificationAssumption DEF PostAnswered, AskedInv, Inv, runtime,
      wire, host
<1>13. CASE EndOfStream \/ PostRefused \/ PostLost
  <2>1. /\ stream' = <<>> /\ current' = Nil /\ UNCHANGED <<answer, shows, closedOut>>
    BY <1>13, Leaves DEF Reconnect, runtime, host
  <2> QED BY <2>1, NotificationAssumption DEF AskedInv, Inv
<1>14. CASE Display
  BY <1>14 DEF Display, AskedInv, Inv, runtime, wire, loop
<1>15. CASE ShowEvent \/ FailedEvent \/ Timeout
  BY <1>15, Settles DEF AskedInv, Inv, runtime, wire
<1>16. CASE Break
  <2>1. /\ Cut /\ UNCHANGED <<answer, closedOut, shows>>
        /\ current' = current \/ current' = Nil
    BY <1>16, Cuts DEF Break, runtime, loop, host
  <2>2. \A i \in 1..Len(stream') : i \in 1..Len(stream) /\ stream'[i] = stream[i]
    BY <2>1, EventsAre DEF Cut
  <2>3. \A i \in 1..Len(stream') :
          answer[stream'[i]] \in {"waiting", "lost"} \/ stream'[i] \in closedOut
    BY <2>2 DEF AskedInv, Inv
  <2>4. \A r \in Request : r # Nil
    BY NotificationAssumption
  <2> QED BY <2>1, <2>3, <2>4 DEF AskedInv, Inv
<1>17. CASE Quit
  <2>1. /\ Cut /\ UNCHANGED <<answer, closedOut, shows>>
        /\ current' = current \/ current' = Nil
    BY <1>17, Cuts DEF Quit, runtime, loop
  <2>2. \A i \in 1..Len(stream') : i \in 1..Len(stream) /\ stream'[i] = stream[i]
    BY <2>1, EventsAre DEF Cut
  <2>3. \A i \in 1..Len(stream') :
          answer[stream'[i]] \in {"waiting", "lost"} \/ stream'[i] \in closedOut
    BY <2>2 DEF AskedInv, Inv
  <2>4. \A r \in Request : r # Nil
    BY NotificationAssumption
  <2> QED BY <2>1, <2>3, <2>4 DEF AskedInv, Inv
<1>18. CASE UNCHANGED vars
  BY <1>18 DEF AskedInv, Inv, vars, runtime, wire, loop, host
<1> QED BY <1>1, <1>2, <1>3, <1>4, <1>5, <1>6, <1>7, <1>8, <1>9, <1>10,
    <1>11, <1>12, <1>13, <1>14, <1>15, <1>16, <1>17, <1>18 DEF Next,
    ClientStep

-----------------------------------------------------------------------------
(* The next event of a client in step with the table is the oldest pending. *)
LEMMA NextIsOldest ==
  ASSUME Inv, Consume, peer, router = "open"
  PROVE  stream[1] = pending[1]
<1>1. client = "reading" /\ 1 \in 1..Len(stream)
  BY Reads, EventsAre
<1>2. stream[1] = pending[1 + 0]
  BY <1>1 DEF Inv, StepInv, Taken
<1> QED BY <1>2

(* The next event, when no receipt of it is remembered: neither it nor any  *)
(* pending one was handed over before.                                      *)
LEMMA NextIsNew ==
  ASSUME Inv, Consume, \A i \in 1..Len(memory) : memory[i].event # stream[1]
  PROVE  /\ shows[stream[1]] = 0
         /\ \A i \in 1..Len(pending) : shows[pending[i]] = 0
<1>1. /\ client = "reading" /\ current = Nil /\ stream[1] \in Request /\ 1 \in 1..Len(stream)
      /\ memory \in Seq([event : Request, receipt : Status])
  BY Reads, EventsAre
<1>2. ~Remembers(stream[1])
  <2>1. memory # <<>> => Len(memory) \in 1..Len(memory)
    BY <1>1
  <2> QED BY <2>1 DEF Remembers
<1>3. \A r \in Request : shows[r] \in Nat
  BY DEF Inv, TypeOK, ClientTypes
<1>4. shows[stream[1]] = 0
  BY <1>1, <1>2, <1>3 DEF Inv, ShownInv
<1>5. ASSUME NEW i \in 1..Len(pending), shows[pending[i]] > 0 PROVE FALSE
  <2>1. i = 1 /\ peer /\ Remembers(pending[1])
    BY <1>1, <1>5 DEF Inv, ShownInv, InHandOrRemembered
  <2>2. pending # <<>> /\ router = "open"
    BY <1>5 DEF Inv, TableInv
  <2>3. stream[1] = pending[1]
    BY <1>1, <2>1, <2>2, NextIsOldest
  <2> QED BY <1>2, <2>1, <2>3
<1> QED BY <1>3, <1>4, <1>5, EventsAre


(* What was handed over.                                                    *)
LEMMA ShownKept ==
  ASSUME Inv, [Next]_vars
  PROVE  ShownInv'
<1>1. ASSUME NEW r \in Request, RequestNotification(r) PROVE ShownInv'
  <2>1. Joining(r) /\ UNCHANGED <<current, shows, memory, client, peer>>
    BY <1>1, Joins DEF RequestNotification, wire, loop, host
  <2>2. \A i \in 1..Len(stream') :
          \/ i \in 1..Len(stream) /\ stream'[i] = stream[i]
          \/ stream'[i] = r
    BY <2>1, EventsAre DEF Joining, Inv, TypeOK
  <2>3. \A i \in 1..Len(pending') :
          \/ i \in 1..Len(pending) /\ pending'[i] = pending[i]
          \/ pending'[i] = r
    BY <2>1, EventsAre DEF Joining
  <2>4. shows[r] = 0
    BY <2>1 DEF Joining
  <2> QED BY <2>1, <2>2, <2>3, <2>4 DEF ShownInv, InHandOrRemembered, Remembers, Inv
<1>2. ASSUME NEW r \in Request, RefuseNotification(r) PROVE ShownInv'
  BY <1>2 DEF RefuseNotification, ShownInv, InHandOrRemembered, Remembers,
      Inv, wire, loop, host
<1>3. ASSUME NEW r \in Request, CloseNative(r) PROVE ShownInv'
  BY <1>3 DEF CloseNative, ShownInv, InHandOrRemembered, Remembers, Inv,
      runtime, wire, loop
<1>4. CASE Acknowledge
  <2>1. /\ client = "posting" /\ peer
        /\ UNCHANGED <<current, shows, memory, stream, peer>>
    BY <1>4 DEF Acknowledge, wire, host
  <2>2. CASE Refused
    <3>1. \A i \in 1..Len(pending) : ~(shows[pending[i]] > 0)
      BY <2>1, <2>2, EventsAre, PendingAre
         DEF Refused, Inv, ShownInv, InHandOrRemembered
    <3> QED BY <2>1, <2>2, <3>1 DEF Refused, ShownInv, Remembers, Inv
  <2>3. CASE Acknowledged
    <3>1. \A i \in 1..Len(pending') : ~(shows[pending'[i]] > 0)
      BY <2>3, EventsAre DEF Acknowledged, Inv, ShownInv
    <3> QED BY <2>1, <3>1 DEF ShownInv, Remembers, Inv
  <2> QED BY <1>4, <2>2, <2>3, Acknowledges
<1>5. CASE Close
  BY <1>5 DEF Close, ShownInv, InHandOrRemembered, Remembers, Inv, wire,
      loop, host
<1>6. CASE Exit
  <2>1. /\ Cut /\ UNCHANGED <<current, shows, memory>> /\ pending' = <<>>
    BY <1>6, Cuts DEF Exit, loop, host
  <2>2. \A i \in 1..Len(stream') : i \in 1..Len(stream) /\ stream'[i] = stream[i]
    BY <2>1, EventsAre DEF Cut
  <2> QED BY <2>1, <2>2 DEF ShownInv, Remembers, Inv
<1>7. CASE Start
  <2>1. /\ pending' = <<>> /\ shows' = shows
        /\ \/ stream' = <<>>
           \/ UNCHANGED <<current, memory, stream>>
    BY <1>7 DEF Start, wire, loop, Inv, TableInv
  <2> QED BY <2>1 DEF ShownInv, Remembers, Inv
<1>8. CASE Connect
  <2>1. /\ client = "idle" /\ client' = "reading" /\ peer' = TRUE /\ stream' = pending
        /\ UNCHANGED <<pending, current, shows, memory>>
    BY <1>8 DEF Connect, Replayed, runtime, host
  <2>2. current = Nil
    BY <2>1 DEF Inv, ClientInv
  <2> QED BY <2>1, <2>2 DEF ShownInv, InHandOrRemembered, Remembers, Inv
<1>9. CASE HandleDuplicate
  <2>1. /\ Consume /\ client' = "posting"
        /\ UNCHANGED <<pending, peer, shows, memory>>
    BY <1>9 DEF HandleDuplicate, runtime, host
  <2>2. /\ client = "reading" /\ current' = stream[1]
        /\ \A i \in 1..Len(stream') :
             i + 1 \in 1..Len(stream) /\ i + 1 # 1 /\ stream'[i] = stream[i + 1]
    BY <2>1, Reads, EventsAre
  <2>3. \A i \in 1..Len(stream') : ~(shows[stream'[i]] > 0)
    BY <2>2 DEF Inv, ShownInv
  <2>4. ASSUME NEW i \in 1..Len(pending), shows[pending[i]] > 0
        PROVE  i = 1 /\ peer /\ Remembers(pending[1]) /\ pending[1] = stream[1]
    <3>1. i = 1 /\ peer /\ Remembers(pending[1])
      BY <2>2, <2>4 DEF Inv, ShownInv, InHandOrRemembered
    <3>2. router = "open"
      BY <2>4 DEF Inv, TableInv
    <3> QED BY <2>1, <3>1, <3>2, NextIsOldest
  <2> QED BY <2>1, <2>2, <2>3, <2>4 DEF ShownInv, InHandOrRemembered, Remembers, Inv
<1>10. CASE HandleUnshown
  <2>1. Consume /\ UNCHANGED <<pending, shows>>
    BY <1>10 DEF HandleUnshown, runtime
  <2>2. /\ \A i \in 1..Len(stream') :
             i + 1 \in 1..Len(stream) /\ i + 1 # 1 /\ stream'[i] = stream[i + 1]
    BY <2>1, Reads, EventsAre
  <2>3. \A i \in 1..Len(stream') : ~(shows[stream'[i]] > 0)
    BY <2>2 DEF Inv, ShownInv
  <2>4. \A i \in 1..Len(pending) : shows[pending[i]] = 0
    BY <1>10, <2>1, AnswersUnshown, NextIsNew
  <2> QED BY <2>1, <2>3, <2>4 DEF ShownInv, Inv
<1>11. CASE Submit
  <2>1. /\ Consume /\ client' = "handling" /\ UNCHANGED <<pending, peer>>
        /\ shows' = [shows EXCEPT ![Head(stream)] = @ + 1]
    BY <1>11 DEF Submit, runtime
  <2>2. /\ current' = stream[1] /\ stream[1] \in Request /\ Head(stream) = stream[1]
        /\ \A i \in 1..Len(stream') :
             i + 1 \in 1..Len(stream) /\ i + 1 # 1 /\ stream'[i] = stream[i + 1]
        /\ 1 \in 1..Len(stream)
    BY <2>1, Reads, EventsAre
  <2>3. shows[stream[1]] = 0 /\ \A i \in 1..Len(pending) : shows[pending[i]] = 0
    <3>1. \A i \in 1..Len(memory) : memory[i].event # stream[1]
      BY <1>11, <2>1, Reads DEF Submit
    <3> QED BY <2>1, <3>1, NextIsNew
  <2>4. shows'[stream[1]] = 1 /\ \A r \in Request : r # stream[1] => shows'[r] = shows[r]
    BY <2>1, <2>2, <2>3 DEF Inv, TypeOK, ClientTypes
  <2>5. \A r \in Request : shows'[r] <= 1
    BY <2>4 DEF Inv, ShownInv
  <2>6. \A i \in 1..Len(stream') : ~(shows'[stream'[i]] > 0)
    <3>1. \A i \in 1..Len(stream') : stream'[i] # stream[1] /\ stream'[i] \in Request
      BY <2>2, EventsAre DEF Inv, StreamInv, Apart
    <3>2. \A i \in 1..Len(stream') : ~(shows[stream'[i]] > 0)
      BY <2>2 DEF Inv, ShownInv
    <3> QED BY <2>4, <3>1, <3>2
  <2>7. ASSUME NEW i \in 1..Len(pending), shows'[pending[i]] > 0
        PROVE  i = 1 /\ peer /\ pending[1] = stream[1]
    <3>1. pending[i] = stream[1]
      BY <2>3, <2>4, <2>7, EventsAre
    <3>2. peer
      BY <2>2, <3>1 DEF Inv, StepInv
    <3>3. router = "open"
      BY <2>7 DEF Inv, TableInv
    <3>4. pending[1] = stream[1] /\ 1 \in 1..Len(pending)
      BY <2>1, <3>2, <3>3, NextIsOldest, EventsAre
    <3> QED BY <3>1, <3>2, <3>4 DEF Inv, TableInv, Apart
  <2> QED BY <2>1, <2>2, <2>5, <2>6, <2>7 DEF ShownInv, InHandOrRemembered
<1>12. CASE PostAnswered
  <2>1. client = "acknowledged" /\ UNCHANGED <<pending, stream, shows>>
    BY <1>12 DEF PostAnswered, runtime, wire, host
  <2>2. current # Nil
    BY <2>1 DEF Inv, ClientInv
  <2> QED BY <2>1, <2>2 DEF ShownInv, InHandOrRemembered, Inv
<1>13. CASE EndOfStream \/ PostRefused \/ PostLost
  <2>1. /\ client' = "idle" /\ stream' = <<>> /\ client # "handling"
        /\ UNCHANGED <<pending, peer, shows, memory>>
    BY <1>13, Leaves DEF Reconnect, runtime, host
  <2> QED BY <2>1 DEF ShownInv, InHandOrRemembered, Remembers, Inv
<1>14. CASE Display
  BY <1>14 DEF Display, ShownInv, InHandOrRemembered, Remembers, Inv,
      runtime, wire, loop
<1>15. CASE ShowEvent \/ FailedEvent \/ Timeout
  <2>1. /\ client = "handling" /\ client' = "posting"
        /\ UNCHANGED <<pending, stream, peer, current, shows>>
        /\ memory' # <<>> /\ memory'[Len(memory')].event = current
    BY <1>15, Settles DEF runtime, wire, Remembering
  <2>2. current # Nil
    BY <2>1 DEF Inv, ClientInv
  <2> QED BY <2>1, <2>2 DEF ShownInv, InHandOrRemembered, Remembers, Inv
<1>16. CASE Break
  <2>1. /\ Cut /\ UNCHANGED <<current, shows, memory, pending, client, peer>>
    BY <1>16, Cuts DEF Break, runtime, loop, host
  <2>2. \A i \in 1..Len(stream') : i \in 1..Len(stream) /\ stream'[i] = stream[i]
    BY <2>1, EventsAre DEF Cut
  <2> QED BY <2>1, <2>2 DEF ShownInv, InHandOrRemembered, Remembers, Inv
<1>17. CASE Quit
  <2>1. /\ Cut /\ UNCHANGED <<current, shows, memory, pending, client, peer>>
    BY <1>17, Cuts DEF Quit, runtime, loop
  <2>2. \A i \in 1..Len(stream') : i \in 1..Len(stream) /\ stream'[i] = stream[i]
    BY <2>1, EventsAre DEF Cut
  <2> QED BY <2>1, <2>2 DEF ShownInv, InHandOrRemembered, Remembers, Inv
<1>18. CASE UNCHANGED vars
  BY <1>18 DEF ShownInv, InHandOrRemembered, Remembers, Inv, vars, runtime,
      wire, loop, host
<1> QED BY <1>1, <1>2, <1>3, <1>4, <1>5, <1>6, <1>7, <1>8, <1>9, <1>10,
    <1>11, <1>12, <1>13, <1>14, <1>15, <1>16, <1>17, <1>18 DEF Next,
    ClientStep

(* Receipts.                                                                *)
LEMMA ReceiptsKept ==
  ASSUME Inv, [Next]_vars
  PROVE  ReceiptsInv'
<1>1. ASSUME NEW r \in Request, RequestNotification(r) PROVE ReceiptsInv'
  <2>1. /\ answer[r] = "unasked" /\ answer' = [answer EXCEPT ![r] = "waiting"]
        /\ UNCHANGED <<closedOut, memory, shows, displayed, client, current, receipt>>
        /\ \/ record' = [record EXCEPT ![r] = IF r \in Scheduled THEN "pending" ELSE @]
           \/ record' = record
    BY <1>1 DEF RequestNotification, loop, host
  <2>2. answer'[r] = "waiting" /\ \A q \in Request : q # r => answer'[q] = answer[q]
    BY <2>1 DEF Inv, TypeOK, RuntimeTypes
  <2>3. \A q \in Request : record'[q] = record[q] \/ (q = r /\ record'[q] = "pending")
    BY <2>1 DEF Inv, TypeOK, RuntimeTypes
  <2>4. record[r] \notin Status
    BY <2>1 DEF Inv, ReceiptsInv, Status
  <2>5. \A q \in Request : record'[q] \in Status => record'[q] = answer'[q]
    BY <2>2, <2>3, <2>4 DEF Inv, ReceiptsInv, Status
  <2> QED BY <2>1, <2>2, <2>5 DEF ReceiptsInv, Matches, Inv
<1>2. ASSUME NEW r \in Request, RefuseNotification(r) PROVE ReceiptsInv'
  <2>1. /\ answer[r] = "unasked" /\ answer' = [answer EXCEPT ![r] = "unavailable"]
        /\ UNCHANGED <<closedOut, memory, shows, displayed, client, current, receipt>>
        /\ \/ record' = [record EXCEPT ![r] = IF r \in Scheduled THEN "unavailable" ELSE @]
           \/ record' = record
           \/ record' = [record EXCEPT ![r] = "pending"]
    BY <1>2 DEF RefuseNotification, loop, host
  <2>2. answer'[r] = "unavailable" /\ \A q \in Request : q # r => answer'[q] = answer[q]
    BY <2>1 DEF Inv, TypeOK, RuntimeTypes
  <2>3. \A q \in Request : \/ record'[q] = record[q]
                           \/ q = r /\ record'[q] \in {"pending", "unavailable"}
    BY <2>1 DEF Inv, TypeOK, RuntimeTypes
  <2>4. record[r] \notin Status /\ shows[r] = 0
    BY <2>1 DEF Inv, ReceiptsInv, AskedInv, Status
  <2>5. \A q \in Request : record'[q] \in Status => record'[q] = answer'[q]
    BY <2>2, <2>3, <2>4 DEF Inv, ReceiptsInv, Status
  <2> QED BY <2>1, <2>2, <2>4, <2>5 DEF ReceiptsInv, Matches, Inv
<1>3. ASSUME NEW r \in Request, CloseNative(r) PROVE ReceiptsInv'
  BY <1>3 DEF CloseNative, ReceiptsInv, Matches, Inv, runtime, wire, loop
<1>4. CASE Acknowledge
  <2>1. /\ client = "posting"
        /\ UNCHANGED <<current, closedOut, memory, shows, displayed>>
    BY <1>4 DEF Acknowledge, host
  <2>2. CASE Refused
    BY <2>1, <2>2 DEF Refused, ReceiptsInv, Matches, Inv
  <2>3. CASE Acknowledged
    <3>1. client' # "posting" /\ Matches(current, receipt)
      BY <2>1, <2>3 DEF Acknowledged, Inv, ReceiptsInv
    <3>2. \A r \in Request : r # current => answer'[r] = answer[r]
      BY <2>3 DEF Acknowledged
    <3>3. answer'[current] = receipt /\ answer[current] = "waiting"
      BY <2>3 DEF Acknowledged
    <3>4. record[current] \notin Status
      BY <2>3, <3>3 DEF Acknowledged, Status, Inv, ReceiptsInv
    <3>5. \A r \in Request : record'[r] \in Status => record'[r] = answer'[r]
      BY <2>3, <3>2, <3>3, <3>4 DEF Acknowledged, Inv, ReceiptsInv
    <3> QED BY <2>1, <3>1, <3>2, <3>3, <3>5 DEF ReceiptsInv, Matches, Inv
  <2> QED BY <1>4, <2>2, <2>3, Acknowledges
<1>5. CASE Close
  <2>1. /\ Resolve(Range(pending), "unavailable")
        /\ closedOut' = closedOut \cup Range(pending)
        /\ UNCHANGED <<client, current, receipt, memory, shows, displayed>>
    BY <1>5 DEF Close, loop, host
  <2>2. /\ \A r \in Request : answer'[r] = IF r \in Range(pending) THEN "unavailable" ELSE answer[r]
        /\ \A r \in Request : \/ record'[r] = record[r]
                              \/ r \in Range(pending) /\ record'[r] = "unavailable"
    BY <2>1, PendingAre, ResolvedAre DEF Status, Inv
  <2>3. \A r \in Request : r \in Range(pending) => record[r] \notin Status
    BY PendingAre DEF Inv, ReceiptsInv, Status
  <2>4. \A r \in Request : record'[r] \in Status => record'[r] = answer'[r]
    BY <2>2, <2>3 DEF Inv, ReceiptsInv
  <2> QED BY <2>1, <2>2, <2>4 DEF ReceiptsInv, Matches, Inv
<1>6. CASE Exit
  <2>1. /\ answer' = [r \in Request |-> IF answer[r] = "waiting" THEN "lost" ELSE answer[r]]
        /\ UNCHANGED <<record, closedOut, client, current, receipt, memory, shows, displayed>>
    BY <1>6 DEF Exit, loop, host
  <2>2. \A r \in Request : record[r] \in Status => answer[r] # "waiting"
    BY DEF Inv, ReceiptsInv, Status
  <2> QED BY <2>1, <2>2 DEF ReceiptsInv, Matches, Inv
<1>7. CASE Start
  <2>1. /\ UNCHANGED <<answer, closedOut, shows, displayed>>
        /\ record' = [r \in Request |-> Recovered(r)]
        /\ \/ UNCHANGED <<client, current, receipt, memory>>
           \/ client' = "idle" /\ memory' = <<>>
    BY <1>7 DEF Start, loop
  <2>2. \A r \in Request : record'[r] = record[r] \/ record'[r] = "result_unknown"
    BY <2>1 DEF Recovered
  <2>3. \A r \in Request : record'[r] \in Status => record'[r] = answer'[r]
    BY <2>1, <2>2 DEF Inv, ReceiptsInv, Status
  <2> QED BY <2>1, <2>3 DEF ReceiptsInv, Matches, Inv
<1>8. CASE Connect
  <2>1. UNCHANGED <<answer, record, closedOut, memory, shows, displayed>> /\ client' # "posting"
    BY <1>8 DEF Connect, runtime, host
  <2> QED BY <2>1 DEF ReceiptsInv, Matches, Inv
<1>9. CASE HandleDuplicate
  <2>1. /\ Consume /\ UNCHANGED <<answer, record, closedOut, memory, shows, displayed>>
    BY <1>9 DEF HandleDuplicate, runtime, host
  <2>2. /\ current' = stream[1]
        /\ \E i \in 1..Len(memory) :
             memory[i].event = stream[1] /\ memory[i].receipt = receipt'
    BY <1>9, <2>1, Reads, AnswersAgain
  <2>3. Matches(stream[1], receipt')
    BY <2>2 DEF Inv, ReceiptsInv
  <2> QED BY <2>1, <2>2, <2>3 DEF ReceiptsInv, Matches, Inv
<1>10. CASE HandleUnshown
  <2>1. /\ Consume /\ UNCHANGED <<answer, record, closedOut, shows, displayed>>
    BY <1>10 DEF HandleUnshown, runtime
  <2>2. /\ current' = stream[1] /\ receipt' # "submitted" /\ Remembering(stream[1], receipt')
        /\ shows[stream[1]] = 0
    BY <1>10, <2>1, Reads, AnswersUnshown, NextIsNew
  <2>3. Matches(stream[1], receipt')
    BY <2>2 DEF Matches
  <2>4. \A i \in 1..Len(memory') : Matches(memory'[i].event, memory'[i].receipt)
    BY <2>2, <2>3 DEF Remembering, Inv, ReceiptsInv
  <2> QED BY <2>1, <2>2, <2>3, <2>4 DEF ReceiptsInv, Matches, Inv
<1>11. CASE Submit
  <2>1. /\ Consume /\ client' = "handling"
        /\ shows' = [shows EXCEPT ![Head(stream)] = @ + 1]
        /\ Known = {} /\ UNCHANGED <<answer, record, closedOut, memory, displayed>>
    BY <1>11 DEF Submit, runtime
  <2>2. /\ stream[1] \in Request /\ Head(stream) = stream[1] /\ 1 \in 1..Len(stream)
        /\ memory \in Seq([event : Request, receipt : Status])
        /\ Known = {i \in 1..Len(memory) : memory[i].event = stream[1]}
    BY <2>1, Reads, EventsAre
  <2>3. \A r \in Request : r # stream[1] => shows'[r] = shows[r]
    BY <2>1, <2>2 DEF Inv, TypeOK, ClientTypes
  <2>4. \A i \in 1..Len(memory) : memory[i].event \in Request
    <3> DEFINE Entry == [event : Request, receipt : Status]
    <3>1. memory \in Seq(Entry) /\ \A e \in Entry : e.event \in Request
      BY <2>2
    <3> HIDE DEF Entry
    <3> QED BY <3>1
  <2>5. \A i \in 1..Len(memory) : memory[i].event # stream[1]
    BY <2>1, <2>2
  <2>6. \A i \in 1..Len(memory) :
          /\ memory[i].receipt = "submitted" => memory[i].event \in displayed
          /\ memory[i].receipt \in {"suppressed", "unavailable"} => shows'[memory[i].event] = 0
    BY <2>3, <2>4, <2>5 DEF Matches, Inv, ReceiptsInv
  <2>7. answer[stream[1]] \in {"waiting", "lost"} \/ stream[1] \in closedOut
    BY <2>2 DEF Inv, AskedInv
  <2>8. \A r \in Request : r \notin closedOut =>
          /\ answer[r] = "submitted" => r \in displayed
          /\ answer[r] \in {"suppressed", "unavailable"} => shows'[r] = 0
    BY <2>3, <2>7 DEF Matches, Inv, ReceiptsInv
  <2> QED BY <2>1, <2>6, <2>8 DEF ReceiptsInv, Matches, Inv
<1>12. CASE PostAnswered
  <2>1. UNCHANGED <<answer, record, closedOut, memory, shows, displayed>> /\ client' # "posting"
    BY <1>12 DEF PostAnswered, runtime, host
  <2> QED BY <2>1 DEF ReceiptsInv, Matches, Inv
<1>13. CASE EndOfStream \/ PostRefused \/ PostLost
  <2>1. client' = "idle" /\ UNCHANGED <<answer, record, closedOut, memory, shows, displayed>>
    BY <1>13, Leaves DEF Reconnect, runtime, host
  <2> QED BY <2>1 DEF ReceiptsInv, Matches, Inv
<1>14. CASE Display
  BY <1>14 DEF Display, ReceiptsInv, Matches, Inv, runtime, wire, loop
<1>15. CASE ShowEvent \/ FailedEvent \/ Timeout
  <2>1. /\ UNCHANGED <<answer, record, closedOut, current, shows, displayed>>
        /\ receipt' \in {"submitted", "failed"} /\ Remembering(current, receipt')
        /\ receipt' = "submitted" => current \in displayed
    BY <1>15, Settles DEF runtime
  <2>2. Matches(current, receipt')
    BY <2>1 DEF Matches
  <2>3. \A i \in 1..Len(memory') : Matches(memory'[i].event, memory'[i].receipt)
    BY <2>1, <2>2 DEF Remembering, Inv, ReceiptsInv
  <2> QED BY <2>1, <2>2, <2>3 DEF ReceiptsInv, Matches, Inv
<1>16. CASE Break
  BY <1>16 DEF Break, ReceiptsInv, Matches, Inv, runtime, loop, host
<1>17. CASE Quit
  BY <1>17 DEF Quit, ReceiptsInv, Matches, Inv, runtime, loop
<1>18. CASE UNCHANGED vars
  BY <1>18 DEF ReceiptsInv, Matches, Inv, vars, runtime, wire, loop, host
<1> QED BY <1>1, <1>2, <1>3, <1>4, <1>5, <1>6, <1>7, <1>8, <1>9, <1>10,
    <1>11, <1>12, <1>13, <1>14, <1>15, <1>16, <1>17, <1>18 DEF Next,
    ClientStep

-----------------------------------------------------------------------------
LEMMA InvStarts == Init => Inv
<1> SUFFICES ASSUME Init PROVE Inv
  OBVIOUS
<1>1. TypeOK
  <2>1. RuntimeTypes
    BY NotificationAssumption DEF Init, RuntimeTypes
  <2>2. ClientTypes
    BY NotificationAssumption DEF Init, ClientTypes
  <2>3. connected \in BOOLEAN /\ peer \in BOOLEAN /\ app \in {"running", "stopped"}
    BY DEF Init
  <2>4. faults \in 0..MaxFaults /\ restarts \in 0..MaxRestarts
    BY NotificationAssumption DEF Init
  <2> QED BY <2>1, <2>2, <2>3, <2>4 DEF TypeOK
<1>2. TableInv /\ ClientInv /\ StreamInv
  BY DEF Init, TableInv, ClientInv, StreamInv, Apart
<1>3. StepInv /\ AskedInv
  BY NotificationAssumption DEF Init, StepInv, AskedInv, Taken
<1>4. ShownInv /\ ReceiptsInv
  BY DEF Init, ShownInv, ReceiptsInv, Matches, Status
<1> QED BY <1>1, <1>2, <1>3, <1>4 DEF Inv

LEMMA InvKept == Inv /\ [Next]_vars => Inv'
<1> SUFFICES ASSUME Inv, [Next]_vars PROVE Inv'
  OBVIOUS
<1>1. TypeOK'
  BY RuntimeTypesKept, ClientTypesKept, FlagsKept, BoundsKept DEF TypeOK, Flags, Bounds
<1>2. TableInv' /\ ClientInv' /\ StreamInv'
  BY TableKept, ClientKept, StreamKept
<1>3. StepInv' /\ AskedInv'
  BY StepKept, AskedKept
<1>4. ShownInv' /\ ReceiptsInv'
  BY ShownKept, ReceiptsKept
<1> QED BY <1>1, <1>2, <1>3, <1>4 DEF Inv

LEMMA InvHolds == Spec => []Inv
<1>1. Init => Inv
  BY InvStarts
<1>2. Inv /\ [Next]_vars => Inv'
  BY InvKept
<1> QED BY <1>1, <1>2, PTL DEF Spec

-----------------------------------------------------------------------------
(* The variables of the notification path keep their types, and the table,  *)
(* the host's memory and its native notifications keep their limits         *)
(* (notifications/index.ts:81, notification-host.ts:229).                   *)
THEOREM NotificationTypes == Spec => []TypeOK
<1>1. Inv => TypeOK
  BY DEF Inv
<1> QED BY <1>1, InvHolds, PTL

(* A notification is handed to the system at most once, whatever breaks,    *)
(* restarts and is sent again, however little the host remembers            *)
(* (host-event-client.ts:185, notification-host.ts:98).                     *)
THEOREM NotificationsAreShownOnce == Spec => []ShownOnce
<1>1. Inv => ShownOnce
  BY DEF Inv, ShownInv, ShownOnce
<1> QED BY <1>1, InvHolds, PTL

(* Answers and durable records agree with what was put on the screen, and   *)
(* with each other (notifications/index.ts:205, notification-host.ts:141).  *)
THEOREM AnswersAreTrue == Spec => []AnswersMatchTheScreen
<1>1. Inv => AnswersMatchTheScreen
  <2> SUFFICES ASSUME Inv, NEW r \in Request
               PROVE  /\ answer[r] = "submitted" => r \in displayed
                      /\ answer[r] = "suppressed" => shows[r] = 0
                      /\ answer[r] = "unavailable" /\ r \notin closedOut => shows[r] = 0
                      /\ record[r] \in Status => record[r] = answer[r]
    BY DEF AnswersMatchTheScreen
  <2>1. r \in closedOut => answer[r] = "unavailable"
    BY DEF Inv, AskedInv
  <2> QED BY <2>1 DEF Inv, ReceiptsInv, Matches
<1> QED BY <1>1, InvHolds, PTL

=============================================================================
