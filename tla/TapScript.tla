----------------------------- MODULE TapScript ------------------------------
(***************************************************************************)
(* The part of the L1 chain that the vault scripts rely on (external to    *)
(* the repository): tapscript evaluation of the opcodes that l1_scripts.rs *)
(* and covenants.rs emit, as BIP-68, BIP-112 and BIP-342 define it.        *)
(*                                                                         *)
(* A stack element is a sequence of atoms <<kind, value>>; OP_CAT appends  *)
(* two of them, OP_SHA256 wraps one.  The top of a stack is its last       *)
(* element.  A signature names its key and the message it signs; what      *)
(* OP_CHECKSIG verifies is always the spending transaction.                *)
(***************************************************************************)
EXTENDS Integers, Sequences, SequencesExt

Push(element) == [op |-> "PUSH", data |-> element]
Op(name) == [op |-> name, data |-> <<>>]

Byte(n) == <<"byte", n>>
KeyOf(who) == << <<"key", who>> >>
Sha256(element) == << <<"sha", element>> >>
Signature(who, message) == << <<"sig", <<who, message>>>> >>

\* The message of a signature over the spending transaction.
TxSighash == << <<"tx", 0>> >>

False == <<>>
True == <<Byte(1)>>
Bool(b) == IF b THEN True ELSE False

\* The number an element of up to four bytes stands for: little-endian, sign in
\* the top bit.
ScriptNum(element) ==
    IF element = <<>> THEN 0
    ELSE LET last == Len(element)
             digit(i) == IF i > last THEN 0
                         ELSE IF i = last THEN element[i][2] % 128 ELSE element[i][2]
             magnitude == digit(1) + digit(2) * 2^8 + digit(3) * 2^16 + digit(4) * 2^24
         IN  IF element[last][2] >= 128 THEN 0 - magnitude ELSE magnitude

\* OP_CHECKSEQUENCEVERIFY for an input whose sequence is a number of blocks:
\* bit 22 would ask for a time, and only the low 16 bits are compared.
SequenceReached(number, sequence) ==
    /\ number >= 0
    /\ (number \div 2^22) % 2 = 0
    /\ number % 2^16 <= sequence

Top(stack, n) == stack[Len(stack) - n]
Pop(stack, n) == SubSeq(stack, 1, Len(stack) - n)

Arity == [PUSH |-> 0, CSV |-> 1, DROP |-> 1, CAT |-> 2, SHA256 |-> 1, EQUAL |-> 2, NOT |-> 1,
          VERIFY |-> 1, CHECKSIG |-> 2, CHECKSIGVERIFY |-> 2, TOALTSTACK |-> 1, FROMALTSTACK |-> 0]

\* One opcode.  rules says which soft forks are active, sequence is the
\* relative lock time of the input.
Step(machine, opcode, rules, sequence) ==
    LET s == machine.stack
        keep(stack) == [machine EXCEPT !.stack = stack]
        require(b, stack) == [machine EXCEPT !.ok = b, !.stack = stack]
        signed == Top(s, 1) = Signature(Top(s, 0)[1][2], TxSighash)
    IN  IF ~ machine.ok \/ Len(s) < Arity[opcode.op] THEN [machine EXCEPT !.ok = FALSE]
        ELSE CASE opcode.op = "PUSH" -> keep(Append(s, opcode.data))
               [] opcode.op = "CSV" ->
                    require(rules.csv => SequenceReached(ScriptNum(Top(s, 0)), sequence), s)
               [] opcode.op = "DROP" -> keep(Pop(s, 1))
               [] opcode.op = "CAT" -> keep(Append(Pop(s, 2), Top(s, 1) \o Top(s, 0)))
               [] opcode.op = "SHA256" -> keep(Append(Pop(s, 1), Sha256(Top(s, 0))))
               [] opcode.op = "EQUAL" -> keep(Append(Pop(s, 2), Bool(Top(s, 0) = Top(s, 1))))
               [] opcode.op = "NOT" -> keep(Append(Pop(s, 1), Bool(Top(s, 0) = False)))
               [] opcode.op = "VERIFY" -> require(Top(s, 0) # False, Pop(s, 1))
               [] opcode.op = "CHECKSIG" ->
                    require(signed \/ Top(s, 1) = <<>>, Append(Pop(s, 2), Bool(signed)))
               [] opcode.op = "CHECKSIGVERIFY" -> require(signed, Pop(s, 2))
               [] opcode.op = "TOALTSTACK" ->
                    [machine EXCEPT !.stack = Pop(s, 1), !.alt = Append(@, Top(s, 0))]
               [] opcode.op = "FROMALTSTACK" ->
                    IF machine.alt = <<>> THEN [machine EXCEPT !.ok = FALSE]
                    ELSE [machine EXCEPT !.stack = Append(s, Last(machine.alt)), !.alt = Front(@)]

Run(script, witness, rules, sequence) ==
    FoldLeft(LAMBDA machine, opcode : Step(machine, opcode, rules, sequence),
             [ok |-> TRUE, stack |-> witness, alt |-> <<>>], script)

\* Before Taproot any spend is valid; before the opcodes are re-enabled a
\* script with OP_CAT is an OP_SUCCESS script.  Otherwise one true element
\* must be left.
Opens(script, witness, rules, sequence) ==
    \/ ~ rules.taproot
    \/ ~ rules.opcodes /\ \E i \in DOMAIN script : script[i].op = "CAT"
    \/ LET final == Run(script, witness, rules, sequence)
       IN  final.ok /\ Len(final.stack) = 1 /\ final.stack[1] # False

\* Output that commits to two leaves, and a spend that reveals one of them.
TapLeaf(script) == <<"TapLeaf", script>>
TapTweak(left, right) == <<"TapTweak", {TapLeaf(left), TapLeaf(right)}>>
Reveals(output, leaf, sibling) == output = TapTweak(leaf, sibling)
=============================================================================
