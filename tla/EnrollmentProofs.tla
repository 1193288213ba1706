-------------------------- MODULE EnrollmentProofs --------------------------
(***************************************************************************)
(* Machine-checked proofs about enrollment, for every set of devices,      *)
(* sources and codes and every bound: a grant is good for one node, and a  *)
(* device keeps the credential and the ticket it was given, whatever is    *)
(* lost and wherever its installer stops.                                  *)
(***************************************************************************)
EXTENDS Enrollment, SequenceTheorems, TLAPS

(* The records, with the places of the installer's program. *)
Requests == [state : {"pending", "approved", "rejected", "consumed"},
             source : Sources, expires : Nat]
CodeRecords == [state : {"none", "fresh", "used"}, expires : Nat]
Nodes == [origin : Codes \cup Ids, device : Devices, at : Nat, revoked : BOOLEAN]
Places == {"off", "file", "ticket", "poll", "code", "admitted",
           "save", "saveOnly", "saved", "connected"}
Processes == [pc : Places, node : Nat]

Types ==
    /\ clock \in 0..MaxClock
    /\ requests \in Seq(Requests) /\ Len(requests) <= MaxRequests
    /\ codes \in [Codes -> CodeRecords]
    /\ nodes \in Seq(Nodes)
    /\ blocked \subseteq Sources /\ approved \subseteq DOMAIN requests
    /\ device \in [Devices -> Processes]
    /\ ticket \in [Devices -> Nat] /\ credential \in [Devices -> Nat]
    /\ crashes \in 0..MaxCrashes /\ lost \in 0..MaxLost

(* An installer that asks for anything, or has not stored what it got, has  *)
(* no credential; what it remembers and stores exists.                      *)
Asking == {"file", "ticket", "poll", "code", "admitted", "save", "saveOnly"}

DeviceInv(d) ==
    /\ ticket[d] \in {NoId} \cup DOMAIN requests
    /\ credential[d] \in {NoId} \cup DOMAIN nodes
    /\ At(d, "ticket") => device[d].node \in DOMAIN requests
    /\ device[d].pc \in {"save", "saveOnly"} => device[d].node \in DOMAIN nodes
    /\ At(d, "poll") => ticket[d] # NoId
    /\ At(d, "saved") => credential[d] # NoId
    /\ device[d].pc \in Asking => credential[d] = NoId

(* A grant that made a node is spent, so that it cannot make another. *)
SpentInv ==
    /\ \A n \in DOMAIN nodes :
          IF nodes[n].origin \in Codes
            THEN codes[nodes[n].origin].state = "used"
            ELSE /\ nodes[n].origin \in DOMAIN requests
                 /\ requests[nodes[n].origin].state = "consumed"
    /\ \A r \in DOMAIN requests : requests[r].state = "approved" => r \in approved

EnrollInv == Types /\ (\A d \in Devices : DeviceInv(d)) /\ SpentInv /\ GrantedOnce

-----------------------------------------------------------------------------
(* Records in a sequence. *)

LEMMA SeqFacts ==
    ASSUME NEW S, NEW s \in Seq(S)
    PROVE  DOMAIN s = 1..Len(s) /\ Len(s) \in Nat /\ \A i \in DOMAIN s : s[i] \in S
BY ElementOfSeq

LEMMA GrowSeq ==
    ASSUME NEW S, NEW s \in Seq(S), NEW e \in S
    PROVE  /\ Append(s, e) \in Seq(S)
           /\ DOMAIN Append(s, e) = DOMAIN s \cup {Len(s) + 1}
           /\ Len(s) + 1 \notin DOMAIN s
           /\ \A i \in DOMAIN s : Append(s, e)[i] = s[i]
           /\ Append(s, e)[Len(s) + 1] = e
           /\ Len(Append(s, e)) = Len(s) + 1
<1>1. /\ Append(s, e) \in Seq(S) /\ Len(Append(s, e)) = Len(s) + 1
      /\ \A i \in 1..Len(s) : Append(s, e)[i] = s[i]
      /\ Append(s, e)[Len(s) + 1] = e
  BY AppendProperties
<1>2. DOMAIN Append(s, e) = 1..(Len(s) + 1) /\ DOMAIN s = 1..Len(s) /\ Len(s) \in Nat
  BY <1>1, SeqFacts
<1> QED BY <1>1, <1>2

LEMMA PutInSeq ==
    ASSUME NEW S, NEW s \in Seq(S), NEW i \in DOMAIN s, NEW e \in S
    PROVE  /\ [s EXCEPT ![i] = e] \in Seq(S)
           /\ DOMAIN [s EXCEPT ![i] = e] = DOMAIN s
           /\ Len([s EXCEPT ![i] = e]) = Len(s)
<1>1. i \in 1..Len(s)
  BY SeqFacts
<1>2. [s EXCEPT ![i] = e] \in Seq(S) /\ Len([s EXCEPT ![i] = e]) = Len(s)
  BY <1>1, ExceptSeq
<1> QED BY <1>2

-----------------------------------------------------------------------------
(* What a step does to the service's records. *)

(* A request changes its state: what it was filed with stays. *)
SetState(r, state) == requests' = [requests EXCEPT ![r].state = state]

LEMMA SetStateEffect ==
    ASSUME Types, NEW r \in DOMAIN requests, NEW state \in {"approved", "rejected", "consumed"},
           SetState(r, state)
    PROVE  /\ requests' \in Seq(Requests) /\ Len(requests') = Len(requests)
           /\ DOMAIN requests' = DOMAIN requests
           /\ \A q \in DOMAIN requests :
                 /\ requests'[q].expires = requests[q].expires
                 /\ requests'[q].source = requests[q].source
                 /\ requests'[q].state = IF q = r THEN state ELSE requests[q].state
<1>1. \A q \in DOMAIN requests : requests[q] \in Requests
  BY SeqFacts DEF Types
<1> DEFINE e == [requests[r] EXCEPT !.state = state]
<1>2. e \in Requests
  BY <1>1 DEF Requests
<1>3. requests' = [requests EXCEPT ![r] = e]
  BY DEF SetState
<1>4. /\ requests' \in Seq(Requests) /\ Len(requests') = Len(requests)
      /\ DOMAIN requests' = DOMAIN requests
  BY <1>2, <1>3, PutInSeq DEF Types
<1>5. \A q \in DOMAIN requests : requests'[q] = IF q = r THEN e ELSE requests[q]
  BY <1>3
<1>6. /\ e.expires = requests[r].expires /\ e.source = requests[r].source /\ e.state = state
  BY <1>1 DEF Requests
<1> QED BY <1>4, <1>5, <1>6

(* The records that are there keep what matters; a new node is the one that *)
(* spends a grant, for a device that asks for it.                           *)
OldRecordsKept ==
    /\ DOMAIN requests \subseteq DOMAIN requests' /\ DOMAIN nodes \subseteq DOMAIN nodes'
    /\ \A q \in DOMAIN requests :
          /\ requests'[q].expires = requests[q].expires
          /\ requests[q].state = "consumed" => requests'[q].state = "consumed"
    /\ \A q \in DOMAIN requests' : requests'[q].state = "approved" => q \in approved'
    /\ \A k \in Codes : codes[k].state = "used" => codes'[k] = codes[k]
    /\ \A n \in DOMAIN nodes :
          nodes'[n].origin = nodes[n].origin /\ nodes'[n].at = nodes[n].at
    /\ approved \subseteq approved'

Spends(o) ==
    IF o \in Codes
      THEN codes[o].state = "fresh" /\ codes'[o].state = "used" /\ clock < codes'[o].expires
      ELSE /\ o \in DOMAIN requests /\ o \in approved
           /\ requests[o].state = "approved" /\ requests'[o].state = "consumed"
           /\ clock < requests[o].expires

NewNode(n) ==
    /\ n = Len(nodes) + 1
    /\ nodes'[n].at = clock
    /\ credential[nodes'[n].device] = NoId
    /\ Spends(nodes'[n].origin)

RecordsEffect == OldRecordsKept /\ \A n \in DOMAIN nodes' \ DOMAIN nodes : NewNode(n)

RecordTypes ==
    /\ requests' \in Seq(Requests) /\ Len(requests') <= MaxRequests
    /\ codes' \in [Codes -> CodeRecords] /\ nodes' \in Seq(Nodes)
    /\ blocked' \subseteq Sources /\ approved' \subseteq DOMAIN requests'

(* Both kinds of grant. *)
LEMMA IssueEffect ==
    ASSUME EnrollInv, NEW d \in Devices, credential[d] = NoId, NEW o, Issue(o, d),
           UNCHANGED <<blocked, approved>>,
           \/ o \in Codes /\ Fresh(o)
           \/ o \in DOMAIN requests /\ Collectable(o)
    PROVE  RecordsEffect /\ RecordTypes
<1> DEFINE node == [origin |-> o, device |-> d, at |-> clock, revoked |-> FALSE]
<1>1. clock \in Nat /\ DOMAIN requests \subseteq Ids /\ Codes \cap Ids = {}
  BY SeqFacts, EnrollmentAssumption DEF EnrollInv, Types, Ids
<1>2. node \in Nodes
  BY <1>1 DEF Nodes
<1>3. nodes' = Append(nodes, node)
  BY DEF Issue
<1>4. /\ nodes' \in Seq(Nodes) /\ DOMAIN nodes' = DOMAIN nodes \cup {Len(nodes) + 1}
      /\ \A n \in DOMAIN nodes : nodes'[n] = nodes[n]
      /\ nodes'[Len(nodes) + 1] = node
  BY <1>2, <1>3, GrowSeq DEF EnrollInv, Types
<1>5. CASE o \in Codes /\ Fresh(o)
  <2>1. o \notin DOMAIN requests /\ requests' = requests
    BY <1>1, <1>5 DEF Issue
  <2>2. /\ codes' \in [Codes -> CodeRecords] /\ codes'[o].state = "used"
        /\ codes'[o].expires = codes[o].expires
        /\ \A k \in Codes : k # o => codes'[k] = codes[k]
    BY <1>5 DEF Issue, EnrollInv, Types, CodeRecords
  <2>3. codes[o].state = "fresh" /\ clock < codes[o].expires
    BY <1>5 DEF Fresh
  <2>4. RecordTypes
    BY <2>1, <2>2, <1>4 DEF RecordTypes, EnrollInv, Types
  <2>5. OldRecordsKept
    BY <2>1, <2>2, <2>3, <1>4 DEF OldRecordsKept, EnrollInv, SpentInv
  <2>6. NewNode(Len(nodes) + 1)
    BY <2>2, <2>3, <1>4, <1>5 DEF NewNode, Spends
  <2> QED BY <2>4, <2>5, <2>6, <1>4 DEF RecordsEffect
<1>6. CASE o \in DOMAIN requests /\ Collectable(o)
  <2>1. o \notin Codes /\ codes' = codes /\ SetState(o, "consumed")
    BY <1>1, <1>6 DEF Issue, SetState
  <2>2. /\ requests' \in Seq(Requests) /\ Len(requests') = Len(requests)
        /\ DOMAIN requests' = DOMAIN requests
        /\ \A q \in DOMAIN requests :
              /\ requests'[q].expires = requests[q].expires
              /\ requests'[q].state = IF q = o THEN "consumed" ELSE requests[q].state
    BY <2>1, <1>6, SetStateEffect DEF EnrollInv
  <2>3. requests[o].state = "approved" /\ clock < requests[o].expires /\ o \in approved
    BY <1>6 DEF Collectable, Live, EnrollInv, SpentInv
  <2>4. RecordTypes
    BY <2>1, <2>2, <1>4 DEF RecordTypes, EnrollInv, Types
  <2>5. OldRecordsKept
    BY <2>1, <2>2, <2>3, <1>4 DEF OldRecordsKept, EnrollInv, SpentInv
  <2>6. NewNode(Len(nodes) + 1)
    BY <2>1, <2>2, <2>3, <1>4, <1>6 DEF NewNode, Spends
  <2> QED BY <2>4, <2>5, <2>6, <1>4 DEF RecordsEffect
<1> QED BY <1>5, <1>6

LEMMA NoRecordEffect ==
    ASSUME EnrollInv, UNCHANGED <<requests, codes, nodes, approved>>, blocked' \subseteq Sources
    PROVE  RecordsEffect /\ RecordTypes
BY DEF RecordsEffect, RecordTypes, OldRecordsKept, EnrollInv, Types, SpentInv

(* A request is decided. *)
LEMMA DecisionEffect ==
    ASSUME EnrollInv, NEW r, Decidable(r), NEW state \in {"approved", "rejected"},
           SetState(r, state), UNCHANGED <<codes, nodes>>, blocked' \subseteq Sources,
           approved' = IF state = "approved" THEN approved \cup {r} ELSE approved
    PROVE  RecordsEffect /\ RecordTypes
<1>1. r \in DOMAIN requests /\ requests[r].state = "pending"
  BY DEF Decidable
<1>2. /\ requests' \in Seq(Requests) /\ Len(requests') = Len(requests)
      /\ DOMAIN requests' = DOMAIN requests
      /\ \A q \in DOMAIN requests :
            /\ requests'[q].expires = requests[q].expires
            /\ requests'[q].state = IF q = r THEN state ELSE requests[q].state
  BY <1>1, SetStateEffect DEF EnrollInv
<1>3. RecordTypes
  BY <1>1, <1>2 DEF RecordTypes, EnrollInv, Types
<1>4. OldRecordsKept
  BY <1>1, <1>2 DEF OldRecordsKept, EnrollInv, SpentInv
<1> QED BY <1>3, <1>4 DEF RecordsEffect

LEMMA FileEffect ==
    ASSUME EnrollInv, NEW s \in Sources, File(s), UNCHANGED <<codes, nodes, blocked, approved>>
    PROVE  RecordsEffect /\ RecordTypes
<1> DEFINE request == [state |-> "pending", source |-> s, expires |-> clock + Lifetime]
<1>1. request \in Requests
  BY EnrollmentAssumption DEF EnrollInv, Types, Requests
<1>2. /\ requests' \in Seq(Requests) /\ DOMAIN requests' = DOMAIN requests \cup {Len(requests) + 1}
      /\ Len(requests) + 1 \notin DOMAIN requests
      /\ \A q \in DOMAIN requests : requests'[q] = requests[q]
      /\ requests'[Len(requests) + 1] = request
      /\ Len(requests') = Len(requests) + 1
  BY <1>1, GrowSeq DEF File, EnrollInv, Types
<1>3. Len(requests) + 1 <= MaxRequests
  BY SeqFacts, EnrollmentAssumption DEF File, EnrollInv, Types
<1>4. RecordTypes
  BY <1>2, <1>3 DEF RecordTypes, EnrollInv, Types
<1>5. OldRecordsKept
  BY <1>2 DEF OldRecordsKept, EnrollInv, SpentInv
<1> QED BY <1>4, <1>5 DEF RecordsEffect

(* Every step. *)
LEMMA StepRecords ==
    ASSUME EnrollInv, [Next]_vars
    PROVE  RecordsEffect /\ RecordTypes
<1>1. ASSUME NEW r \in Ids, Approve(r) PROVE RecordsEffect /\ RecordTypes
  <2>1. SetState(r, "approved") /\ blocked' \subseteq Sources
    BY <1>1 DEF Approve, SetState, EnrollInv, Types
  <2> QED BY <1>1, <2>1, DecisionEffect DEF Approve
<1>2. ASSUME NEW r \in Ids, Reject(r) PROVE RecordsEffect /\ RecordTypes
  <2>1. SetState(r, "rejected") /\ blocked' \subseteq Sources
    BY <1>2 DEF Reject, SetState, EnrollInv, Types
  <2> QED BY <1>2, <2>1, DecisionEffect DEF Reject
<1>3. ASSUME NEW r \in Ids, NEW c \in BOOLEAN, BlockIP(r, c) PROVE RecordsEffect /\ RecordTypes
  <2>1. r \in DOMAIN requests
    BY <1>3 DEF BlockIP, Decidable
  <2>2. requests[r].source \in Sources
    <3>1. requests[r] \in Requests
      BY <2>1, SeqFacts DEF EnrollInv, Types
    <3> QED BY <3>1 DEF Requests
  <2>3. blocked' \subseteq Sources
    BY <1>3, <2>2 DEF BlockIP, EnrollInv, Types
  <2>4. CASE c
    <3>1. SetState(r, "rejected")
      BY <1>3, <2>4 DEF BlockIP, SetState
    <3> QED BY <1>3, <2>3, <3>1, DecisionEffect DEF BlockIP
  <2>5. CASE ~c
    BY <1>3, <2>3, <2>5, NoRecordEffect DEF BlockIP
  <2> QED BY <2>4, <2>5
<1>4. ASSUME NEW s \in Sources, Unblock(s) PROVE RecordsEffect /\ RecordTypes
  <2>1. blocked' \subseteq Sources
    BY <1>4 DEF Unblock, EnrollInv, Types
  <2> QED BY <1>4, <2>1, NoRecordEffect DEF Unblock
<1>5. ASSUME NEW k \in Codes, CreateEnrollment(k) PROVE RecordsEffect /\ RecordTypes
  <2>1. clock + Lifetime \in Nat
    BY EnrollmentAssumption DEF EnrollInv, Types
  <2>2. /\ codes' \in [Codes -> CodeRecords]
        /\ \A j \in Codes : j # k => codes'[j] = codes[j]
        /\ codes[k].state = "none"
    BY <1>5, <2>1 DEF CreateEnrollment, EnrollInv, Types, CodeRecords
  <2>3. RecordTypes
    BY <1>5, <2>2 DEF CreateEnrollment, RecordTypes, EnrollInv, Types
  <2>4. OldRecordsKept
    BY <1>5, <2>2 DEF CreateEnrollment, OldRecordsKept, EnrollInv, SpentInv
  <2> QED BY <1>5, <2>3, <2>4 DEF CreateEnrollment, RecordsEffect
<1>6. ASSUME NEW n \in 1..Len(nodes), RevokeClient(n) PROVE RecordsEffect /\ RecordTypes
  <2> DEFINE node == [nodes[n] EXCEPT !.revoked = TRUE]
  <2>1. n \in DOMAIN nodes /\ \A i \in DOMAIN nodes : nodes[i] \in Nodes
    BY <1>6, SeqFacts DEF RevokeClient, EnrollInv, Types
  <2>2. node \in Nodes /\ node.origin = nodes[n].origin /\ node.at = nodes[n].at
    BY <2>1 DEF Nodes
  <2>3. nodes' = [nodes EXCEPT ![n] = node]
    BY <1>6 DEF RevokeClient
  <2>4. nodes' \in Seq(Nodes) /\ DOMAIN nodes' = DOMAIN nodes
    BY <2>1, <2>2, <2>3, PutInSeq DEF EnrollInv, Types
  <2>5. \A i \in DOMAIN nodes :
           nodes'[i].origin = nodes[i].origin /\ nodes'[i].at = nodes[i].at
    BY <2>2, <2>3
  <2>6. RecordTypes
    BY <1>6, <2>4 DEF RevokeClient, RecordTypes, EnrollInv, Types
  <2>7. OldRecordsKept
    BY <1>6, <2>4, <2>5 DEF RevokeClient, OldRecordsKept, EnrollInv, SpentInv
  <2> QED BY <2>4, <2>6, <2>7 DEF RecordsEffect
<1>7. ASSUME NEW d \in Devices, NEW k \in Codes, EnrollClient(d, k)
      PROVE  RecordsEffect /\ RecordTypes
  <2>1. credential[d] = NoId
    BY <1>7 DEF EnrollClient, EnrollInv, DeviceInv, At, Asking
  <2> QED BY <1>7, <2>1, IssueEffect DEF EnrollClient
<1>8. ASSUME NEW d \in Devices, NEW s \in Sources, FileRequest(d, s)
      PROVE  RecordsEffect /\ RecordTypes
  BY <1>8, FileEffect DEF FileRequest
<1>9. ASSUME NEW d \in Devices, NEW s \in Sources, Collect(d, s)
      PROVE  RecordsEffect /\ RecordTypes
  <2>1. credential[d] = NoId /\ ticket[d] \in DOMAIN requests
    BY <1>9 DEF Collect, EnrollInv, DeviceInv, At, Asking
  <2>2. Issue(ticket[d], d) /\ Collectable(ticket[d]) /\ UNCHANGED <<blocked, approved>>
    BY <1>9 DEF Collect
  <2> QED BY <2>1, <2>2, IssueEffect
<1>10. ASSUME NEW d \in Devices,
              \/ Begin(d) \/ BeginWithCode(d) \/ SaveTicket(d) \/ Fails(d)
              \/ SaveCredential(d) \/ RemoveTicket(d) \/ Finish(d) \/ Crash(d)
              \/ \E s \in Sources : EnrollArrives(d, s) \/ GiveUpTicket(d, s)
       PROVE  UNCHANGED service
  BY <1>10 DEF Begin, BeginWithCode, EnrollArrives, GiveUpTicket, SaveTicket, Fails,
               SaveCredential, RemoveTicket, Finish, Crash, service
<1>11. ASSUME Tick \/ UNCHANGED vars PROVE UNCHANGED service
  BY <1>11 DEF Tick, vars, service
<1>12. ASSUME UNCHANGED service PROVE RecordsEffect /\ RecordTypes
  <2>1. blocked' \subseteq Sources
    BY <1>12 DEF service, EnrollInv, Types
  <2> QED BY <1>12, <2>1, NoRecordEffect DEF service
<1> QED
  BY <1>1, <1>2, <1>3, <1>4, <1>5, <1>6, <1>7, <1>8, <1>9, <1>10, <1>11, <1>12
     DEF Next, Console, Installer

(* So a grant stays good for one node. *)
LEMMA GrantsKept ==
    ASSUME EnrollInv, RecordsEffect
    PROVE  SpentInv' /\ GrantedOnce'
<1> USE DEF RecordsEffect, OldRecordsKept
<1>1. \A n \in DOMAIN nodes :
         IF nodes[n].origin \in Codes
           THEN /\ codes[nodes[n].origin].state = "used"
                /\ codes'[nodes[n].origin] = codes[nodes[n].origin]
                /\ nodes[n].at < codes[nodes[n].origin].expires
           ELSE /\ nodes[n].origin \in DOMAIN requests
                /\ requests[nodes[n].origin].state = "consumed"
                /\ requests'[nodes[n].origin].state = "consumed"
                /\ requests'[nodes[n].origin].expires = requests[nodes[n].origin].expires
                /\ nodes[n].origin \in approved
                /\ nodes[n].at < requests[nodes[n].origin].expires
  BY DEF EnrollInv, SpentInv, GrantedOnce
<1>2. \A n \in DOMAIN nodes' : n \in DOMAIN nodes \/ NewNode(n)
  OBVIOUS
<1>3. \A n \in DOMAIN nodes' :
         IF nodes'[n].origin \in Codes
           THEN /\ codes'[nodes'[n].origin].state = "used"
                /\ nodes'[n].at < codes'[nodes'[n].origin].expires
           ELSE /\ nodes'[n].origin \in DOMAIN requests'
                /\ requests'[nodes'[n].origin].state = "consumed"
                /\ nodes'[n].origin \in approved'
                /\ nodes'[n].at < requests'[nodes'[n].origin].expires
  BY <1>1, <1>2 DEF NewNode, Spends
<1>4. \A m, n \in DOMAIN nodes' : nodes'[m].origin = nodes'[n].origin => m = n
  <2> TAKE m, n \in DOMAIN nodes'
  <2> HAVE nodes'[m].origin = nodes'[n].origin
  <2>1. CASE m \in DOMAIN nodes /\ n \in DOMAIN nodes
    BY <2>1 DEF EnrollInv, GrantedOnce
  <2>2. CASE m \in DOMAIN nodes /\ n \notin DOMAIN nodes
    BY <1>1, <1>2, <2>2 DEF NewNode, Spends
  <2>3. CASE m \notin DOMAIN nodes /\ n \in DOMAIN nodes
    BY <1>1, <1>2, <2>3 DEF NewNode, Spends
  <2>4. CASE m \notin DOMAIN nodes /\ n \notin DOMAIN nodes
    BY <1>2, <2>4 DEF NewNode
  <2> QED BY <2>1, <2>2, <2>3, <2>4
<1>5. SpentInv'
  BY <1>3 DEF SpentInv
<1>6. GrantedOnce'
  BY <1>3, <1>4 DEF GrantedOnce
<1> QED BY <1>5, <1>6

-----------------------------------------------------------------------------
(* What a step does to a device. *)

(* Nothing, as long as the installer of another one moves. *)
LEMMA OtherDevices ==
    ASSUME EnrollInv, RecordsEffect, NEW d \in Devices,
           device'[d] = device[d], ticket'[d] = ticket[d], credential'[d] = credential[d]
    PROVE  DeviceInv(d)'
BY DEF EnrollInv, RecordsEffect, OldRecordsKept, DeviceInv, At

(* How an action writes the process of its device. *)
OthersStay(d) == \A e \in Devices \ {d} : device'[e] = device[e]

LEMMA GotoEffect ==
    ASSUME Types, NEW d \in Devices, NEW pc \in Places, Goto(d, pc)
    PROVE  /\ device' \in [Devices -> Processes] /\ OthersStay(d)
           /\ device'[d].pc = pc /\ device'[d].node = device[d].node
<1>1. device \in [Devices -> Processes] /\ device[d] \in Processes
  BY DEF Types
<1> DEFINE p == [device[d] EXCEPT !.pc = pc]
<1>2. p \in Processes /\ p.pc = pc /\ p.node = device[d].node
  BY <1>1 DEF Processes
<1>3. device' = [device EXCEPT ![d] = p]
  BY DEF Goto
<1> HIDE DEF p
<1> QED BY <1>1, <1>2, <1>3 DEF OthersStay

LEMMA WriteEffect ==
    ASSUME Types, NEW d \in Devices, NEW p \in Processes, device' = [device EXCEPT ![d] = p]
    PROVE  device' \in [Devices -> Processes] /\ OthersStay(d) /\ device'[d] = p
BY DEF Types, OthersStay

LEMMA StopEffect ==
    ASSUME Types, NEW d \in Devices, Stop(d)
    PROVE  device' \in [Devices -> Processes] /\ OthersStay(d) /\ device'[d].pc = "off"
<1>1. Off \in Processes /\ Off.pc = "off"
  BY DEF Off, Processes, Places, NoId
<1> QED BY <1>1, WriteEffect DEF Stop

(* A reply arrives or does not; the process goes on with it or stops. *)
LEMMA AnswerEffect ==
    ASSUME Types, NEW d \in Devices, NEW p \in Processes, Heard(d, p) \/ Unheard(d)
    PROVE  /\ device' \in [Devices -> Processes] /\ OthersStay(d)
           /\ device'[d] = p \/ device'[d].pc = "off"
           /\ lost' \in 0..MaxLost
<1>1. CASE Heard(d, p)
  BY <1>1, WriteEffect DEF Heard, Types
<1>2. CASE Unheard(d)
  <2>1. lost' \in 0..MaxLost
    BY <1>2, EnrollmentAssumption DEF Unheard, Types
  <2> QED BY <1>2, <2>1, StopEffect DEF Unheard
<1> QED BY <1>1, <1>2

(* What holds of a device and its files after each of its actions. *)
DeviceStep(d) ==
    /\ device' \in [Devices -> Processes] /\ OthersStay(d)
    /\ ticket' \in [Devices -> Nat] /\ credential' \in [Devices -> Nat]
    /\ crashes' \in 0..MaxCrashes /\ lost' \in 0..MaxLost /\ clock' = clock
    /\ \A e \in Devices \ {d} : ticket'[e] = ticket[e] /\ credential'[e] = credential[e]
    /\ DeviceInv(d)'

LEMMA InstallerStep ==
    ASSUME EnrollInv, RecordsEffect, RecordTypes, NEW d \in Devices, Installer(d)
    PROVE  DeviceStep(d)
<1> USE DEF DeviceStep, DeviceInv, At, Asking, NoId
<1>0. /\ Types /\ DeviceInv(d) /\ device[d] \in Processes
      /\ ticket \in [Devices -> Nat] /\ credential \in [Devices -> Nat]
      /\ crashes \in 0..MaxCrashes /\ lost \in 0..MaxLost
      /\ DOMAIN requests \subseteq DOMAIN requests' /\ DOMAIN nodes \subseteq DOMAIN nodes'
  BY DEF EnrollInv, Types, RecordsEffect, OldRecordsKept
<1>1. CASE Begin(d)
  <2>1. \E pc \in {"connected", "poll", "file"} :
           /\ Goto(d, pc)
           /\ pc # "connected" => credential[d] = NoId
           /\ pc = "poll" => ticket[d] # NoId
    BY <1>1 DEF Begin, HasCredential, HasTicket
  <2>2. PICK pc \in {"connected", "poll", "file"} :
           /\ Goto(d, pc)
           /\ pc # "connected" => credential[d] = NoId
           /\ pc = "poll" => ticket[d] # NoId
    BY <2>1
  <2>3. pc \in Places
    BY DEF Places
  <2> QED BY <1>0, <1>1, <2>2, <2>3, GotoEffect DEF Begin, files, bounds
<1>2. CASE BeginWithCode(d)
  <2>1. "code" \in Places
    BY DEF Places
  <2> QED BY <1>0, <1>2, <2>1, GotoEffect DEF BeginWithCode, HasCredential, files, bounds
<1>3. CASE \E s \in Sources : EnrollArrives(d, s)
  <2>1. "admitted" \in Places
    BY DEF Places
  <2> QED BY <1>0, <1>3, <2>1, GotoEffect DEF EnrollArrives, files, bounds
<1>4. CASE \E s \in Sources : FileRequest(d, s)
  <2> DEFINE p == [pc |-> "ticket", node |-> Len(requests) + 1]
  <2>1. Len(requests) + 1 \in DOMAIN requests'
    BY <1>4, SeqFacts DEF FileRequest, File, RecordTypes, EnrollInv, Types
  <2>2. p \in Processes /\ p.pc = "ticket" /\ p.node = Len(requests) + 1
    BY <1>0, SeqFacts DEF Processes, Places, Types
  <2>3. (Heard(d, p) \/ Unheard(d)) /\ UNCHANGED <<clock, files, crashes>> /\ At(d, "file")
    BY <1>4 DEF FileRequest
  <2> HIDE DEF p
  <2> QED BY <1>0, <2>1, <2>2, <2>3, AnswerEffect DEF files
<1>5. CASE \E s \in Sources : Collect(d, s)
  <2> DEFINE p == [pc |-> "save", node |-> Len(nodes) + 1]
  <2>1. Len(nodes) + 1 \in DOMAIN nodes'
    BY <1>5, SeqFacts DEF Collect, Issue, RecordTypes, EnrollInv, Types
  <2>2. p \in Processes /\ p.pc = "save" /\ p.node = Len(nodes) + 1
    BY <1>0, SeqFacts DEF Processes, Places, Types
  <2>3. (Heard(d, p) \/ Unheard(d)) /\ UNCHANGED <<clock, files, crashes>> /\ At(d, "poll")
    BY <1>5 DEF Collect
  <2> HIDE DEF p
  <2> QED BY <1>0, <2>1, <2>2, <2>3, AnswerEffect DEF files
<1>6. CASE \E s \in Sources : GiveUpTicket(d, s)
  <2>1. Stop(d) /\ ticket' = [ticket EXCEPT ![d] = NoId] /\ UNCHANGED <<clock, credential, bounds>>
    BY <1>6 DEF GiveUpTicket
  <2> QED BY <1>0, <2>1, StopEffect DEF bounds
<1>7. CASE \E k \in Codes : EnrollClient(d, k)
  <2> DEFINE p == [pc |-> "saveOnly", node |-> Len(nodes) + 1]
  <2>1. Len(nodes) + 1 \in DOMAIN nodes'
    BY <1>7, SeqFacts DEF EnrollClient, Issue, RecordTypes, EnrollInv, Types
  <2>2. p \in Processes /\ p.pc = "saveOnly" /\ p.node = Len(nodes) + 1
    BY <1>0, SeqFacts DEF Processes, Places, Types
  <2>3. (Heard(d, p) \/ Unheard(d)) /\ UNCHANGED <<clock, files, crashes>> /\ At(d, "admitted")
    BY <1>7 DEF EnrollClient
  <2> HIDE DEF p
  <2> QED BY <1>0, <2>1, <2>2, <2>3, AnswerEffect DEF files
<1>8. CASE SaveTicket(d)
  <2> DEFINE p == [pc |-> "poll", node |-> NoId]
  <2>1. p \in Processes /\ p.pc = "poll"
    BY DEF Processes, Places
  <2>2. /\ device' = [device EXCEPT ![d] = p] /\ ticket' = [ticket EXCEPT ![d] = device[d].node]
        /\ UNCHANGED <<clock, credential, bounds>> /\ At(d, "ticket")
    BY <1>8 DEF SaveTicket
  <2>3. device[d].node \in DOMAIN requests /\ device[d].node \in Nat \ {NoId}
    BY <1>0, <2>2, SeqFacts DEF Types, Processes
  <2> HIDE DEF p
  <2> QED BY <1>0, <2>1, <2>2, <2>3, WriteEffect DEF bounds
<1>9. CASE Fails(d) \/ Finish(d)
  BY <1>0, <1>9, StopEffect DEF Fails, Finish, files, bounds
<1>10. CASE SaveCredential(d)
  <2> DEFINE p == [pc |-> IF At(d, "save") THEN "saved" ELSE "connected", node |-> NoId]
  <2>1. p \in Processes /\ p.pc \in {"saved", "connected"}
    BY DEF Processes, Places
  <2>2. /\ device' = [device EXCEPT ![d] = p]
        /\ credential' = [credential EXCEPT ![d] = device[d].node]
        /\ UNCHANGED <<clock, ticket, bounds>> /\ device[d].pc \in {"save", "saveOnly"}
    BY <1>10 DEF SaveCredential
  <2>3. device[d].node \in DOMAIN nodes /\ device[d].node \in Nat \ {NoId}
    BY <1>0, <2>2, SeqFacts DEF Types, Processes
  <2> HIDE DEF p
  <2> QED BY <1>0, <2>1, <2>2, <2>3, WriteEffect DEF bounds
<1>11. CASE RemoveTicket(d)
  <2>1. "connected" \in Places
    BY DEF Places
  <2> QED BY <1>0, <1>11, <2>1, GotoEffect DEF RemoveTicket, bounds
<1>12. CASE Crash(d)
  <2>1. crashes' \in 0..MaxCrashes
    BY <1>0, <1>12, EnrollmentAssumption DEF Crash
  <2> QED BY <1>0, <1>12, <2>1, StopEffect DEF Crash, files
<1> QED
  BY <1>1, <1>2, <1>3, <1>4, <1>5, <1>6, <1>7, <1>8, <1>9, <1>10, <1>11, <1>12
     DEF Installer

LEMMA ConsoleStep ==
    ASSUME Types, Console \/ Tick \/ UNCHANGED vars
    PROVE  /\ UNCHANGED <<device, ticket, credential, crashes>>
           /\ clock' \in 0..MaxClock /\ lost' \in 0..MaxLost
<1> USE EnrollmentAssumption DEF Types, service, files, bounds
<1>1. CASE Console
  BY <1>1 DEF Console, Approve, Reject, BlockIP, Unblock, CreateEnrollment, RevokeClient
<1>2. CASE Tick \/ UNCHANGED vars
  BY <1>2 DEF Tick, vars
<1> QED BY <1>1, <1>2

-----------------------------------------------------------------------------
(* Theorems. *)

LEMMA InitialState == Init => EnrollInv
<1> SUFFICES ASSUME Init PROVE EnrollInv
  OBVIOUS
<1> USE DEF Init
<1>1. <<>> \in Seq(Requests) /\ <<>> \in Seq(Nodes) /\ Len(<<>>) = 0 /\ DOMAIN <<>> = {}
  BY EmptySeq
<1>2. Types
  BY <1>1, EnrollmentAssumption DEF Types, Off, NoId, CodeRecords, Processes, Places
<1>3. \A d \in Devices : DeviceInv(d)
  BY DEF DeviceInv, At, Off, NoId, Asking
<1>4. SpentInv /\ GrantedOnce
  BY <1>1 DEF SpentInv, GrantedOnce
<1> QED BY <1>2, <1>3, <1>4 DEF EnrollInv

LEMMA InductiveStep == EnrollInv /\ [Next]_vars => EnrollInv'
<1> SUFFICES ASSUME EnrollInv, [Next]_vars PROVE EnrollInv'
  OBVIOUS
<1>1. RecordsEffect /\ RecordTypes
  BY StepRecords
<1>2. SpentInv' /\ GrantedOnce'
  BY <1>1, GrantsKept
<1>3. Types' /\ \A d \in Devices : DeviceInv(d)'
  <2>1. CASE Console \/ Tick \/ UNCHANGED vars
    <3>1. Types'
      BY <1>1, <2>1, ConsoleStep DEF Types, RecordTypes, EnrollInv
    <3>2. \A d \in Devices : DeviceInv(d)'
      BY <1>1, <2>1, ConsoleStep, OtherDevices DEF EnrollInv
    <3> QED BY <3>1, <3>2
  <2>2. ASSUME NEW d \in Devices, Installer(d) PROVE Types' /\ \A e \in Devices : DeviceInv(e)'
    <3>1. DeviceStep(d)
      BY <1>1, <2>2, InstallerStep
    <3>2. Types'
      BY <1>1, <3>1 DEF DeviceStep, Types, RecordTypes, EnrollInv
    <3>3. ASSUME NEW e \in Devices \ {d} PROVE DeviceInv(e)'
      BY <1>1, <3>1, OtherDevices DEF DeviceStep, OthersStay, EnrollInv
    <3> QED BY <3>1, <3>2, <3>3 DEF DeviceStep
  <2> QED BY <2>1, <2>2 DEF Next
<1> QED BY <1>2, <1>3 DEF EnrollInv

(* The inductive invariant: types, what devices remember, spent grants. *)
THEOREM EnrollInvariantHolds == Spec => []EnrollInv
BY InitialState, InductiveStep, PTL DEF Spec

(* The records and the files keep their kinds (TypeOK). *)
THEOREM EnrollTypesCorrect == Spec => []TypeOK
<1>1. EnrollInv => TypeOK
  BY DEF EnrollInv, Types, DeviceInv, TypeOK, Requests, CodeRecords, Nodes, Processes, Places
<1> QED BY <1>1, EnrollInvariantHolds, PTL

(* However often it is collected, by whomever, a request that somebody has  *)
(* approved, or a code, makes one node (client_nodes.go).                   *)
THEOREM GrantsAreSpentOnce == Spec => []GrantedOnce
<1>1. EnrollInv => GrantedOnce
  BY DEF EnrollInv
<1> QED BY <1>1, EnrollInvariantHolds, PTL

(* A device that has its credential on disk never files a request or       *)
(* spends a code again (client_connection.go): whoever asks has none, and  *)
(* every node that is made is made for a device that asks.                 *)
THEOREM CredentialsAreKept == Spec => CredentialIsKept
<1> DEFINE Kept == \A d \in Devices : credential[d] # NoId =>
                     /\ credential'[d] = credential[d]
                     /\ \A n \in DOMAIN nodes' : nodes'[n].device = d => n \in DOMAIN nodes
<1>1. EnrollInv /\ [Next]_vars => Kept
  <2> SUFFICES ASSUME EnrollInv, [Next]_vars, NEW d \in Devices, credential[d] # NoId
               PROVE  /\ credential'[d] = credential[d]
                      /\ \A n \in DOMAIN nodes' : nodes'[n].device = d => n \in DOMAIN nodes
    OBVIOUS
  <2>1. RecordsEffect /\ RecordTypes
    BY StepRecords
  <2>2. \A n \in DOMAIN nodes' : nodes'[n].device = d => n \in DOMAIN nodes
    BY <2>1 DEF RecordsEffect, NewNode, NoId
  <2>3. credential'[d] = credential[d]
    <3>1. CASE Console \/ Tick \/ UNCHANGED vars
      BY <3>1, ConsoleStep DEF EnrollInv
    <3>2. ASSUME NEW e \in Devices \ {d}, Installer(e) PROVE credential'[d] = credential[d]
      BY <2>1, <3>2, InstallerStep DEF DeviceStep
    <3>3. CASE Installer(d)
      <4>1. ~ SaveCredential(d)
        BY DEF SaveCredential, EnrollInv, DeviceInv, Asking, At
      <4> QED
        BY <3>3, <4>1 DEF Installer, Begin, BeginWithCode, EnrollArrives, FileRequest, Collect,
           GiveUpTicket, EnrollClient, SaveTicket, Fails, RemoveTicket, Finish, Crash, files
    <3> QED BY <3>1, <3>2, <3>3 DEF Next
  <2> QED BY <2>2, <2>3
<1>2. Spec => [][Kept]_vars
  BY <1>1, EnrollInvariantHolds, PTL DEF Spec
<1> QED BY <1>2 DEF CredentialIsKept

(* A ticket goes only when it is worthless or its credential is on disk:   *)
(* RemoveTicket comes after SaveCredential, and no other action takes it.  *)
THEOREM TicketsAreKept == Spec => TicketIsKept
<1> DEFINE Worthless(d) == \/ credential[d] # NoId
                           \/ requests[ticket[d]].state \in {"rejected", "consumed"}
                           \/ ~ Live(ticket[d])
           Kept == \A d \in Devices : ticket[d] # NoId /\ ticket'[d] = NoId => Worthless(d)
<1>1. EnrollInv /\ [Next]_vars => Kept
  <2> SUFFICES ASSUME EnrollInv, [Next]_vars, NEW d \in Devices,
                      ticket[d] # NoId, ticket'[d] = NoId
               PROVE  Worthless(d)
    OBVIOUS
  <2>1. RecordsEffect /\ RecordTypes
    BY StepRecords
  <2>2. CASE Console \/ Tick \/ UNCHANGED vars
    BY <2>2, ConsoleStep DEF EnrollInv
  <2>3. ASSUME NEW e \in Devices \ {d}, Installer(e) PROVE FALSE
    BY <2>1, <2>3, InstallerStep DEF DeviceStep
  <2>4. CASE Installer(d)
    <3>1. CASE \E s \in Sources : GiveUpTicket(d, s)
      BY <3>1 DEF GiveUpTicket
    <3>2. CASE SaveTicket(d)
      <4>1. device[d].node \in DOMAIN requests /\ NoId \notin DOMAIN requests
        BY <3>2, SeqFacts DEF SaveTicket, EnrollInv, DeviceInv, At, Types, NoId
      <4> QED BY <3>2, <4>1 DEF SaveTicket, EnrollInv, Types
    <3>3. CASE RemoveTicket(d)
      BY <3>3 DEF RemoveTicket, EnrollInv, DeviceInv
    <3> QED
      BY <2>4, <3>1, <3>2, <3>3 DEF Installer, Begin, BeginWithCode, EnrollArrives, FileRequest,
         Collect, EnrollClient, SaveCredential, Fails, Finish, Crash, files
  <2> QED BY <2>2, <2>3, <2>4 DEF Next
<1>2. Spec => [][Kept]_vars
  BY <1>1, EnrollInvariantHolds, PTL DEF Spec
<1> QED BY <1>2 DEF TicketIsKept
=============================================================================
