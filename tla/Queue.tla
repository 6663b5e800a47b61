-------------------------------- MODULE Queue -------------------------------
(***************************************************************************)
(* What HashSetQueue and RequestQ promise: a queue of different values, of *)
(* which any can be erased, and from which all can be told about in turn.  *)
(***************************************************************************)
EXTENDS Sequences, SequencesExt

CONSTANT Values

VARIABLES
  content,  \* Values in the order of their arrival
  taken     \* Values told about by a drain that isn't finished

queue == <<content, taken>>

Init == content = <<>> /\ taken = <<>>

Push(value) ==
  /\ value \notin {content[k] : k \in DOMAIN content} /\ taken = <<>>
  /\ content' = Append(content, value) /\ UNCHANGED taken
Erase(value) ==
  /\ \E k \in DOMAIN content : content[k] = value /\ content' = RemoveAt(content, k)
  /\ UNCHANGED taken
Pop == content # <<>> /\ content' = Tail(content) /\ UNCHANGED taken
Tell == content # <<>> /\ content' = Tail(content) /\ taken' = Append(taken, Head(content))
Clear == content = <<>> /\ taken' = <<>> /\ UNCHANGED content

Next == (\E value \in Values : Push(value) \/ Erase(value)) \/ Pop \/ Tell \/ Clear
Spec == Init /\ [][Next]_queue
=============================================================================
