----------------------------- MODULE Enrollment -----------------------------
(***************************************************************************)
(* How a remote device becomes a node of the review service                *)
(* (src/internal/core/client_requests.go, client_nodes.go and              *)
(* client_connection.go).  The installer on the device either spends a     *)
(* one-time code or files a request, waits until somebody at the console   *)
(* approves it, and fetches its credential with the next poll.             *)
(*                                                                         *)
(* The service's handlers hold Engine.mu and commit before they answer;    *)
(* the middleware checks the source before the handler takes the mutex.    *)
(* Requests and replies may be lost, the installer may stop at any point   *)
(* and be run again: what survives are its files request.json (the ticket) *)
(* and enrolled.json (the credential).  Both sides read the same clock.    *)
(***************************************************************************)
EXTENDS Integers, Sequences, FiniteSets

CONSTANTS
    Devices,      \* devices that run the installer
    Sources,      \* the addresses their requests come from
    Codes,        \* one-time codes an administrator may issue
    Quota,        \* live requests of one source: 5
    Total,        \* live requests of all sources: 256
    Lifetime,     \* of a request and of a code: ten minutes
    MaxClock,     \* bound: the clock stops here
    MaxRequests,  \* bound: requests that are ever filed
    MaxCrashes,   \* bound: installer runs that are cut short
    MaxLost       \* bound: replies that do not arrive, writes that fail

Ids == 1..MaxRequests
NoId == 0

ASSUME EnrollmentAssumption ==
    /\ Codes \cap Ids = {}
    /\ Quota \in Nat /\ Total \in Nat
    /\ Lifetime \in Nat \ {0}
    /\ MaxClock \in Nat /\ MaxRequests \in Nat
    /\ MaxCrashes \in Nat /\ MaxLost \in Nat

VARIABLES
    clock,
    requests,    \* records client_requests, in the order they were filed
    codes,       \* records client_enrollments
    nodes,       \* records client_nodes, in the order they were issued
    blocked,     \* records client_ip_blocks
    device,      \* the installer's process on each device
    ticket,      \* request.json, NoId if there is none
    credential,  \* enrolled.json: the node it belongs to, NoId if none
    crashes, lost,
    approved     \* history: requests somebody approved

service == <<requests, codes, nodes, blocked, approved>>
files == <<ticket, credential>>
bounds == <<crashes, lost>>
vars == <<clock, requests, codes, nodes, blocked, device, ticket, credential,
          crashes, lost, approved>>

-----------------------------------------------------------------------------
Live(r) == clock < requests[r].expires
LiveRequests == {r \in DOMAIN requests : Live(r)}

(* A request counts until it expires, however it was decided. *)
Filed(s) == {r \in LiveRequests : requests[r].source = s}

Fresh(k) == codes[k].state = "fresh" /\ clock < codes[k].expires

(* A process that is not running remembers nothing. *)
Off == [pc |-> "off", node |-> NoId]

At(d, pc) == device[d].pc = pc
Goto(d, pc) == device' = [device EXCEPT ![d].pc = pc]
Stop(d) == device' = [device EXCEPT ![d] = Off]

(* The reply arrives, or the installer gives up for now. *)
Heard(d, then) == device' = [device EXCEPT ![d] = then] /\ UNCHANGED lost
Unheard(d) == lost < MaxLost /\ lost' = lost + 1 /\ Stop(d)

Init ==
    /\ clock = 0
    /\ requests = <<>>
    /\ codes = [k \in Codes |-> [state |-> "none", expires |-> 0]]
    /\ nodes = <<>>
    /\ blocked = {}
    /\ device = [d \in Devices |-> Off]
    /\ ticket = [d \in Devices |-> NoId]
    /\ credential = [d \in Devices |-> NoId]
    /\ crashes = 0
    /\ lost = 0
    /\ approved = {}

-----------------------------------------------------------------------------
(* The service *)

(* Mutant: the grant stays as it was until the device confirms. *)
IssueOnly(origin, d) ==
    /\ nodes' = Append(nodes, [origin |-> origin, device |-> d, at |-> clock,
                               revoked |-> FALSE])
    /\ UNCHANGED <<requests, codes>>

(* issueClientCredential: the node and the end of the grant are one commit. *)
Issue(origin, d) ==
    /\ nodes' = Append(nodes, [origin |-> origin, device |-> d, at |-> clock,
                               revoked |-> FALSE])
    /\ IF origin \in Codes
         THEN /\ codes' = [codes EXCEPT ![origin].state = "used"]
              /\ UNCHANGED requests
         ELSE /\ requests' = [requests EXCEPT ![origin].state = "consumed"]
              /\ UNCHANGED codes

(* CreateClientRequest. *)
File(s) ==
    /\ s \notin blocked
    /\ Cardinality(Filed(s)) < Quota
    /\ Cardinality(LiveRequests) < Total
    /\ Len(requests) < MaxRequests
    /\ requests' = Append(requests, [state |-> "pending", source |-> s,
                                     expires |-> clock + Lifetime])

(* DecideClientRequest on a request that is pending and live. *)
Decidable(r) == r \in DOMAIN requests /\ requests[r].state = "pending" /\ Live(r)

Approve(r) ==
    /\ Decidable(r)
    /\ requests[r].source \notin blocked
    /\ requests' = [requests EXCEPT ![r].state = "approved"]
    /\ approved' = approved \cup {r}
    /\ UNCHANGED <<clock, codes, nodes, blocked, device, files, bounds>>

Reject(r) ==
    /\ Decidable(r)
    /\ requests' = [requests EXCEPT ![r].state = "rejected"]
    /\ UNCHANGED <<clock, codes, nodes, blocked, device, files, bounds, approved>>

(* The block and the rejection are two commits: the second may fail. *)
BlockIP(r, complete) ==
    /\ Decidable(r)
    /\ blocked' = blocked \cup {requests[r].source}
    /\ IF complete
         THEN requests' = [requests EXCEPT ![r].state = "rejected"] /\ UNCHANGED lost
         ELSE lost < MaxLost /\ lost' = lost + 1 /\ UNCHANGED requests
    /\ UNCHANGED <<clock, codes, nodes, device, files, crashes, approved>>

Unblock(s) ==
    /\ s \in blocked
    /\ blocked' = blocked \ {s}
    /\ UNCHANGED <<clock, requests, codes, nodes, device, files, bounds, approved>>

CreateEnrollment(k) ==
    /\ codes[k].state = "none"
    /\ codes' = [codes EXCEPT ![k] = [state |-> "fresh", expires |-> clock + Lifetime]]
    /\ UNCHANGED <<clock, requests, nodes, blocked, device, files, bounds, approved>>

(* Mutant: the last node is deleted. *)
RevokeByDeletion(n) ==
    /\ n = Len(nodes)
    /\ n > 0
    /\ nodes' = SubSeq(nodes, 1, n - 1)
    /\ UNCHANGED <<clock, requests, codes, blocked, device, files, bounds, approved>>

RevokeClient(n) ==
    /\ n \in DOMAIN nodes
    /\ ~ nodes[n].revoked
    /\ nodes' = [nodes EXCEPT ![n].revoked = TRUE]
    /\ UNCHANGED <<clock, requests, codes, blocked, device, files, bounds, approved>>

-----------------------------------------------------------------------------
(* The installer *)

(* Mutant: a credential on disk is not looked at. *)
HasCredentialForgotten(d) == FALSE

(* prepareClientConnection: enrolled.json is used before anything is asked. *)
HasCredential(d) == credential[d] # NoId

HasTicket(d) == ticket[d] # NoId /\ Live(ticket[d])

(* The installer is started, with a code or without one; with a credential *)
(* on disk it needs neither, and refuses a code.                           *)
Begin(d) ==
    /\ At(d, "off")
    /\ Goto(d, IF HasCredential(d) THEN "connected"
               ELSE IF HasTicket(d) THEN "poll" ELSE "file")
    /\ UNCHANGED <<clock, service, files, bounds>>

BeginWithCode(d) ==
    /\ At(d, "off")
    /\ ~ HasCredential(d)
    /\ Goto(d, "code")
    /\ UNCHANGED <<clock, service, files, bounds>>

(* The middleware lets a request through unless its source is blocked. *)
EnrollArrives(d, s) ==
    /\ At(d, "code")
    /\ s \notin blocked
    /\ Goto(d, "admitted")
    /\ UNCHANGED <<clock, service, files, bounds>>

(* EnrollClient looks at the code, and not at the source again. *)
EnrollClient(d, k) ==
    /\ At(d, "admitted")
    /\ Fresh(k)
    /\ Issue(k, d)
    /\ \/ Heard(d, [pc |-> "saveOnly", node |-> Len(nodes) + 1])
       \/ Unheard(d)
    /\ UNCHANGED <<clock, blocked, files, crashes, approved>>

FileRequest(d, s) ==
    /\ At(d, "file")
    /\ File(s)
    /\ \/ Heard(d, [pc |-> "ticket", node |-> Len(requests) + 1])
       \/ Unheard(d)
    /\ UNCHANGED <<clock, codes, nodes, blocked, files, crashes, approved>>

SaveTicket(d) ==
    /\ At(d, "ticket")
    /\ ticket' = [ticket EXCEPT ![d] = device[d].node]
    /\ device' = [device EXCEPT ![d] = [pc |-> "poll", node |-> NoId]]
    /\ UNCHANGED <<clock, service, credential, bounds>>

(* The service looks at the clock itself. *)
Collectable(r) == requests[r].state = "approved" /\ Live(r)

(* PollClientRequest refuses a source that is blocked by now, whether the  *)
(* poll comes from it or the request did.                                  *)
MayPoll(s, r) == s \notin blocked /\ requests[r].source \notin blocked

(* An approved request is consumed and its credential is in the reply. *)
Collect(d, s) ==
    LET r == ticket[d] IN
    /\ At(d, "poll")
    /\ Live(r)
    /\ MayPoll(s, r)
    /\ Collectable(r)
    /\ Issue(r, d)
    /\ \/ Heard(d, [pc |-> "save", node |-> Len(nodes) + 1])
       \/ Unheard(d)
    /\ UNCHANGED <<clock, blocked, files, crashes, approved>>

(* The request was rejected, or consumed by a poll whose reply was lost,   *)
(* or it has expired: the ticket is of no use any more.                    *)
GiveUpTicket(d, s) ==
    LET r == ticket[d] IN
    /\ At(d, "poll")
    /\ \/ ~ Live(r)
       \/ MayPoll(s, r) /\ requests[r].state \in {"rejected", "consumed"}
    /\ ticket' = [ticket EXCEPT ![d] = NoId]
    /\ Stop(d)
    /\ UNCHANGED <<clock, service, credential, bounds>>

(* Mutant: whatever ends the run, the ticket goes with it. *)
FailsForGood(d) ==
    /\ \E pc \in {"file", "code", "admitted", "poll"} : At(d, pc)
    /\ ticket' = [ticket EXCEPT ![d] = NoId]
    /\ Stop(d)
    /\ UNCHANGED <<clock, service, credential, bounds>>

(* A request the service refuses, or that does not arrive, ends the run;   *)
(* the ticket is kept for the next one.                                    *)
Fails(d) ==
    /\ \E pc \in {"file", "code", "admitted", "poll"} : At(d, pc)
    /\ Stop(d)
    /\ UNCHANGED <<clock, service, files, bounds>>

(* The credential is on disk before the ticket is removed; a device that   *)
(* came in with a code leaves an old ticket where it is.                   *)
SaveCredential(d) ==
    /\ device[d].pc \in {"save", "saveOnly"}
    /\ credential' = [credential EXCEPT ![d] = device[d].node]
    /\ device' = [device EXCEPT ![d] =
                     [pc |-> IF At(d, "save") THEN "saved" ELSE "connected",
                      node |-> NoId]]
    /\ UNCHANGED <<clock, service, ticket, bounds>>

RemoveTicket(d) ==
    /\ At(d, "saved")
    /\ ticket' = [ticket EXCEPT ![d] = NoId]
    /\ Goto(d, "connected")
    /\ UNCHANGED <<clock, service, credential, bounds>>

(* The hooks are installed with the credential; the run is over. *)
Finish(d) ==
    /\ At(d, "connected")
    /\ Stop(d)
    /\ UNCHANGED <<clock, service, files, bounds>>

Crash(d) ==
    /\ ~ At(d, "off")
    /\ crashes < MaxCrashes
    /\ crashes' = crashes + 1
    /\ Stop(d)
    /\ UNCHANGED <<clock, service, files, lost>>

Tick ==
    /\ clock < MaxClock
    /\ clock' = clock + 1
    /\ UNCHANGED <<service, device, files, bounds>>

Console ==
    \/ \E r \in Ids : Approve(r) \/ Reject(r) \/ \E c \in BOOLEAN : BlockIP(r, c)
    \/ \E s \in Sources : Unblock(s)
    \/ \E k \in Codes : CreateEnrollment(k)
    \/ \E n \in 1..Len(nodes) : RevokeClient(n)

Installer(d) ==
    \/ Begin(d) \/ BeginWithCode(d)
    \/ \E s \in Sources :
          EnrollArrives(d, s) \/ FileRequest(d, s) \/ Collect(d, s) \/ GiveUpTicket(d, s)
    \/ \E k \in Codes : EnrollClient(d, k)
    \/ SaveTicket(d)
    \/ Fails(d)
    \/ SaveCredential(d) \/ RemoveTicket(d) \/ Finish(d)
    \/ Crash(d)

Next == Console \/ (\E d \in Devices : Installer(d)) \/ Tick

Spec == Init /\ [][Next]_vars

-----------------------------------------------------------------------------
(* Properties *)

(* The kinds of the service's records and of the installers' files. *)
TypeOK ==
    /\ clock \in 0..MaxClock
    /\ requests \in Seq([state : {"pending", "approved", "rejected", "consumed"},
                         source : Sources, expires : Nat])
    /\ codes \in [Codes -> [state : {"none", "fresh", "used"}, expires : Nat]]
    /\ nodes \in Seq([origin : Codes \cup Ids, device : Devices, at : Nat,
                      revoked : BOOLEAN])
    /\ blocked \subseteq Sources
    /\ \A d \in Devices :
          /\ device[d].pc \in {"off", "file", "ticket", "poll", "code", "admitted",
                               "save", "saveOnly", "saved", "connected"}
          /\ ticket[d] \in {NoId} \cup DOMAIN requests
          /\ credential[d] \in {NoId} \cup DOMAIN nodes
    /\ crashes \in 0..MaxCrashes /\ lost \in 0..MaxLost
    /\ approved \subseteq DOMAIN requests

(* However often polls and codes are repeated, by one device or by several,*)
(* a grant is good for one node: a request that somebody approved, or a    *)
(* code, collected before it expired.                                      *)
GrantedOnce ==
    /\ \A m, n \in DOMAIN nodes : nodes[m].origin = nodes[n].origin => m = n
    /\ \A n \in DOMAIN nodes :
          LET o == nodes[n].origin IN
          IF o \in Codes THEN nodes[n].at < codes[o].expires
                         ELSE o \in approved /\ nodes[n].at < requests[o].expires

(* A device that has its credential on disk never files a request or       *)
(* spends a code again: every later run, after a crash at whatever point,  *)
(* finds the file first.                                                   *)
CredentialIsKept ==
    [][\A d \in Devices : credential[d] # NoId =>
          /\ credential'[d] = credential[d]
          /\ \A n \in DOMAIN nodes' : nodes'[n].device = d => n \in DOMAIN nodes]_vars

(* The installer gives a ticket up only when it is worthless or its        *)
(* credential is on disk.                                                  *)
TicketIsKept ==
    [][\A d \in Devices : ticket[d] # NoId /\ ticket'[d] = NoId =>
          \/ credential[d] # NoId
          \/ requests[ticket[d]].state \in {"rejected", "consumed"}
          \/ ~ Live(ticket[d])]_vars
=============================================================================
