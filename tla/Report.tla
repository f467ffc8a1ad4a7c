------------------------------ MODULE Report ------------------------------
(***************************************************************************)
(* What a node reports of its friends to the applications                  *)
(* (funder/src/report.rs, proto/src/report/messages.rs) and, as            *)
(* capacities, to the index client (proto/src/report/convert.rs).          *)
(*                                                                         *)
(* A friend has a status, a liveness, and a channel.  The channel is       *)
(* reduced to the capacities to send and to receive that it allows, and    *)
(* those with the rate to one number: 0 for a channel that is closed,      *)
(* inconsistent or used up.                                                *)
(***************************************************************************)
EXTENDS Integers, Sequences, FiniteSets, SequencesExt

Put(r, f, v) == [g \in DOMAIN r \cup {f} |-> IF g = f THEN v ELSE r[g]]
Drop(r, f) == [g \in DOMAIN r \ {f} |-> r[g]]

\* create_friend_report
FriendReport(friend, on) == [enabled |-> friend.enabled, online |-> on, cap |-> friend.cap]

\* create_report, of the friends and the set of friends that are online.
CreateReport(friends, online) == [f \in DOMAIN friends |-> FriendReport(friends[f], f \in online)]

AddFriendReport(f, cap) == [op |-> "add", friend |-> f, cap |-> cap]
RemoveFriendReport(f) == [op |-> "remove", friend |-> f]
SetField(f, field, value) == [op |-> "set", friend |-> f, field |-> field, value |-> value]

\* ephemeral_mutation_to_report_mutations: only of those who are friends.
LivenessReport(friends, f, on) == IF f \in DOMAIN friends THEN <<SetField(f, "online", on)>> ELSE <<>>

\* FunderReport.mutate; a new friend is disabled and offline.
MutateReport(r, m) ==
  CASE m.op = "add" -> Put(r, m.friend, [enabled |-> FALSE, online |-> FALSE, cap |-> m.cap])
    [] m.op = "remove" -> Drop(r, m.friend)
    [] m.op = "set" -> [r EXCEPT ![m.friend][m.field] = m.value]

\* A batch of mutations, one after the other.
MutateAll(r, ms) ==
  LET t[i \in 0..Len(ms)] == IF i = 0 THEN r ELSE MutateReport(t[i - 1], ms[i]) IN t[Len(ms)]

CalcFriendCapacities(fr) == IF fr.enabled /\ fr.online THEN fr.cap ELSE 0

\* funder_report_to_index_client_state: friends without capacity are left out.
IndexClientState(r) ==
  [f \in {g \in DOMAIN r : CalcFriendCapacities(r[g]) # 0} |-> CalcFriendCapacities(r[f])]

\* Slip: the capacity is the channel's, whatever the friend's status.
IndexMutationOfChannel(r, m) ==
  IF m.op = "remove" THEN <<[friend |-> m.friend, remove |-> TRUE, cap |-> 0]>>
  ELSE <<[friend |-> m.friend, remove |-> FALSE, cap |-> MutateReport(r, m)[m.friend].cap]>>

\* funder_report_mutation_to_index_mutation, for the report before the batch.
IndexMutation(r, m) ==
  IF m.op = "remove" THEN <<[friend |-> m.friend, remove |-> TRUE, cap |-> 0]>>
  ELSE LET cap == CalcFriendCapacities(MutateReport(r, m)[m.friend]) IN
       IF m.friend \in DOMAIN r /\ CalcFriendCapacities(r[m.friend]) = cap THEN <<>>
       ELSE <<[friend |-> m.friend, remove |-> FALSE, cap |-> cap]>>

\* Every mutation of a batch is compared with the report before the batch.
IndexMutations(r, ms) ==
  LET t[i \in 0..Len(ms)] == IF i = 0 THEN <<>> ELSE t[i - 1] \o IndexMutation(r, ms[i])
  IN t[Len(ms)]

\* apply_index_mutation, on what the index client knows.
ApplyIndexMutation(known, im) ==
  IF im.remove THEN Drop(known, im.friend) ELSE Put(known, im.friend, im.cap)

ApplyIndexMutations(known, ims) ==
  LET t[i \in 0..Len(ims)] == IF i = 0 THEN known ELSE ApplyIndexMutation(t[i - 1], ims[i])
  IN t[Len(ims)]
============================================================================
