------------------------------ MODULE ChatLog -------------------------------
(***************************************************************************)
(* What the chat relay promises (docs/chat2-sync.md), without rooms,       *)
(* cursors, frames or checkpoints: a chat is a set of batches that only    *)
(* grows.  A device's batch stays its own to send until the chat has it; a *)
(* device reads what the chat has, never a batch without its history, and  *)
(* forgets only when its engine starts again.                              *)
(***************************************************************************)
EXTENDS Integers, Sequences

CONSTANT Devices

VARIABLES
  after,    \* the batches written so far, each as the set its author saw
  chat,     \* what a reader can get
  docs,     \* what each device shows
  unsent    \* what each device has yet to see in the chat

vars == <<after, chat, docs, unsent>>

Init ==
  /\ after = <<>>
  /\ chat = {}
  /\ docs = [d \in Devices |-> {}]
  /\ unsent = [d \in Devices |-> {}]

Closed(H) == \A b \in H : after[b] \subseteq H

Write(d) ==
  LET b == Len(after) + 1
  IN  /\ after' = Append(after, docs[d])
      /\ docs' = [docs EXCEPT ![d] = docs[d] \union {b}]
      /\ unsent' = [unsent EXCEPT ![d] = unsent[d] \union {b}]
      /\ UNCHANGED chat

\* The chat takes in what someone sends, and d learns of what it has.
Publish(d) ==
  \E new \in SUBSET UNION {unsent[e] : e \in Devices}, seen \in SUBSET unsent[d] :
    /\ chat' = chat \union new
    /\ seen \subseteq chat'
    /\ unsent' = [unsent EXCEPT ![d] = unsent[d] \ seen]
    /\ UNCHANGED <<after, docs>>

Read(d) ==
  \E new \in SUBSET (chat \union unsent[d]) :
    /\ Closed(docs[d] \union new)
    /\ docs' = [docs EXCEPT ![d] = docs[d] \union new]
    /\ UNCHANGED <<after, chat, unsent>>

Reopen(d) ==
  \E kept \in SUBSET docs[d] :
    /\ Closed(kept)
    /\ docs' = [docs EXCEPT ![d] = kept]
    /\ UNCHANGED <<after, chat, unsent>>

Next == \E d \in Devices : Write(d) \/ Publish(d) \/ Read(d) \/ Reopen(d)

Spec == Init /\ [][Next]_vars

=============================================================================
