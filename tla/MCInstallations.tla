--------------------------- MODULE MCInstallations ---------------------------
(* The link of Pi, and the two scopes of Grok, one of which the service also *)
(* offers.                                                                   *)
EXTENDS Installations, TLC

CONSTANTS client, p1, p2, loader

MCCommands == {client, p1, p2, loader}
(* At most this many things go wrong in one behaviour ... *)
MaxTrouble == 2
Troubles == crashes + faults + edits + moves

(* ... and once the service takes part, the client is not used, or there is *)
(* only one entry both offer, and one device.                               *)
ServiceTakesPart ==
    moves > 0 \/ lop.pc # "off" \/ \E e \in LocalEntries : records[e] # NoRecord

ClientIsNotUsed == op.pc = "off" /\ nodes = 0

OneSharedEntry ==
    /\ Troubles <= 1 /\ crashes = 0 /\ nodes <= 1
    /\ \A e \in Entries \ {"grok"} :
          ~entry[e].exists /\ (e \in LocalEntries => records[e] = NoRecord)
    /\ lop.pc # "off" => lop.entry = "grok"
    /\ own["code"] \in {0, 1}
    /\ op.pc \in {"connect", "plan"} =>
          op.target = "grok" /\ op.version = 1 /\ ~op.switch
    /\ \A k \in DOMAIN op.edits :
          /\ op.edits[k].file \in {"grok"} \cup OwnFiles
          /\ op.edits[k].file = "code" => op.edits[k].after = 1 /\ k = 1

OneSharedLink ==
    /\ Troubles <= 1 /\ nodes <= 1
    /\ \A e \in Entries \ {"pi"} :
          ~entry[e].exists /\ (e \in LocalEntries => records[e] = NoRecord)

SmallInstance ==
    /\ Troubles <= MaxTrouble
    /\ ServiceTakesPart => ClientIsNotUsed \/ OneSharedEntry \/ OneSharedLink

Paths == Permutations(Programs)

MCEntries == {"pi", "grok", "grokProject"}
MCDocuments == {"grok", "grokProject"}
MCLinks == {"pi"}
MCAgentOf == [e \in MCEntries |-> IF e = "pi" THEN "pi" ELSE "grok"]
MCScopeOf == [e \in MCEntries |-> IF e = "grokProject" THEN "project" ELSE "global"]
=============================================================================
