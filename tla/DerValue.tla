------------------------------ MODULE DerValue ------------------------------
(***************************************************************************)
(* What a consumer of a certificate's values is to make of them: the DER   *)
(* form of the value that is begun, with those begun inside it, each with  *)
(* its tag and the bytes of its content so far.  A value that is ended is  *)
(* put behind the content of the one around it, after its tag and the      *)
(* length of its content in the fewest bytes.                              *)
(***************************************************************************)
EXTENDS Naturals, SequencesExt

CONSTANTS
  BASE,    \* how many values a byte has
  Calls    \* [op, tag, content]: a value is put, or one is started or ended

VARIABLE stack   \* [tag, body] of the values begun, from the outermost; << >> after an error

Byte == 0 .. BASE - 1
TwoBytes(len) == CHOOSE d \in Byte \X Byte : len = d[1] * BASE + d[2]
DerLength(len) ==
  IF len < BASE \div 2 THEN << len >>
  ELSE IF len < BASE THEN << BASE \div 2 + 1, len >>
  ELSE << BASE \div 2 + 2, TwoBytes(len)[1], TwoBytes(len)[2] >>
TagLengthValue(tag, body) == << tag >> \o DerLength(Len(body)) \o body

Began(tag) == [tag |-> tag, body |-> << >>]
PutInto(values, bytes) == [values EXCEPT ![Len(values)].body = @ \o bytes]

Init == stack = << Began(0) >>

Value(tag, content) == stack # << >> /\ stack' = PutInto(stack, TagLengthValue(tag, content))
Start(tag) == stack # << >> /\ stack' = Append(stack, Began(tag))
End ==
  /\ Len(stack) > 1
  /\ stack' = PutInto(Front(stack), TagLengthValue(Last(stack).tag, Last(stack).body))
Fail == stack' = << >>

Do(call) ==
  \/ call.op = "value" /\ Value(call.tag, call.content)
  \/ call.op = "start" /\ Start(call.tag)
  \/ call.op = "end" /\ End
  \/ Fail
\* What changes the values begun is a call.
Next == stack' # stack /\ \E call \in Calls : Do(call)

Spec == Init /\ [][Next]_stack
=============================================================================
