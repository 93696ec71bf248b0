--------------------------- MODULE ScriptMachine ---------------------------
(***************************************************************************)
(* BitVMInterpreter::step (src/runtime/BitVMInterpreter.cpp): the opcodes, *)
(* the branches they open and close, and what execute makes of a script.   *)
(*                                                                         *)
(* The script is the sequence of the instructions executed so far and the  *)
(* next one is any, so every script up to the bound is explored.  A stack  *)
(* element is a byte string given by name and the number of times it was   *)
(* hashed; SHA-256 is taken to have no collisions and no zero hash.        *)
(***************************************************************************)
EXTENDS Integers, Sequences, FiniteSets, SequencesExt

CONSTANTS
  Instructions,      \* the instructions a script may hold
  InitialStacks,     \* the stacks execute may be given
  MaxScript          \* bound on the length of a script

\* parseScript makes an OP_PUSH of the byte string "data" of Push("data").
Push(data) == [op |-> "PUSH", data |-> data]
Plain(op) == [op |-> op, data |-> ""]
Opcodes ==
  {"0", "1", "NOP", "IF", "NOTIF", "ELSE", "ENDIF", "VERIFY", "RETURN", "TOALTSTACK",
   "FROMALTSTACK", "DROP", "DUP", "SWAP", "EQUAL", "EQUALVERIFY", "SHA256", "CHECKSIG",
   "CHECKSIGVERIFY", "PUSH", "UNSUPPORTED"}

\* What a stack may hold: the byte strings that OP_0, OP_1, EQUAL and CHECKSIG make,
\* those pushed by the script and those of the first stack, hashed any number of times.
Names ==
  {"", "01"} \cup {inst.data : inst \in Instructions}
    \cup UNION {{s[i].name : i \in 1 .. Len(s)} : s \in InitialStacks}
Values == [name : Names, hashed : Nat]

ASSUME ScriptAssumption ==
  /\ Instructions \subseteq [op : Opcodes, data : STRING]
  /\ InitialStacks \subseteq Seq([name : STRING, hashed : Nat])
  /\ MaxScript \in Nat

VARIABLES
  script,            \* the instructions up to ip
  stack,             \* InterpreterState::stack, the top last
  altStack,          \* InterpreterState::alt_stack
  ifStack,           \* InterpreterState::if_stack
  executing,         \* InterpreterState::executing
  success,           \* InterpreterState::execution_success
  taken              \* history: the condition each instruction, if an IF, found

scriptVars == <<script, stack, altStack, ifStack, executing, success, taken>>

Bytes(name) == [name |-> name, hashed |-> 0]
Sha256(v) == [name |-> v.name, hashed |-> v.hashed + 1]

\* False is the empty string, zeros, and zeros that end in 0x80.
IsTrue(v) == v.hashed > 0 \/ v.name \notin {"", "00", "80"}

ScriptInit ==
  /\ stack \in InitialStacks
  /\ script = <<>> /\ altStack = <<>> /\ ifStack = <<>> /\ taken = <<>>
  /\ executing = TRUE /\ success = TRUE

-----------------------------------------------------------------------------
(* Branches.                                                               *)

\* Fault: an IF in a branch that does not run is skipped like the rest of it.
OpIfExecuting(inst) ==
  /\ inst.op \in {"IF", "NOTIF"} /\ (executing => stack # <<>>)
  /\ LET condition == executing /\ (IsTrue(Last(stack)) <=> inst.op = "IF")
     IN /\ ifStack' = IF executing THEN Append(ifStack, condition) ELSE ifStack
        /\ executing' = condition
        /\ taken' = Append(taken, condition)
  /\ stack' = IF executing THEN Front(stack) ELSE stack
  /\ UNCHANGED <<altStack, success>>

\* An IF that is not executed takes nothing from the stack and is not taken.
OpIf(inst) ==
  /\ inst.op \in {"IF", "NOTIF"} /\ (executing => stack # <<>>)
  /\ LET condition == executing /\ (IsTrue(Last(stack)) <=> inst.op = "IF")
     IN /\ ifStack' = Append(ifStack, condition)
        /\ executing' = condition
        /\ taken' = Append(taken, condition)
  /\ stack' = IF executing THEN Front(stack) ELSE stack
  /\ UNCHANGED <<altStack, success>>

\* Fault: executing becomes what the innermost branch says.
OpElseInnermost(inst) ==
  /\ inst.op = "ELSE" /\ ifStack # <<>>
  /\ ifStack' = Append(Front(ifStack), ~Last(ifStack))
  /\ executing' = ~Last(ifStack)
  /\ taken' = Append(taken, FALSE)
  /\ UNCHANGED <<stack, altStack, success>>

OpElse(inst) ==
  /\ inst.op = "ELSE" /\ ifStack # <<>>
  /\ ifStack' = Append(Front(ifStack), ~Last(ifStack))
  /\ executing' = \A i \in DOMAIN ifStack' : ifStack'[i]
  /\ taken' = Append(taken, FALSE)
  /\ UNCHANGED <<stack, altStack, success>>

OpEndIf(inst) ==
  /\ inst.op = "ENDIF" /\ ifStack # <<>>
  /\ ifStack' = Front(ifStack)
  /\ executing' = \A i \in DOMAIN ifStack' : ifStack'[i]
  /\ taken' = Append(taken, FALSE)
  /\ UNCHANGED <<stack, altStack, success>>

-----------------------------------------------------------------------------
(* The other opcodes.                                                      *)

Branching == {"IF", "NOTIF", "ELSE", "ENDIF"}

\* How many elements an opcode asks the stack for.
Needs(op) ==
  IF op \in {"SWAP", "EQUAL", "EQUALVERIFY", "CHECKSIG", "CHECKSIGVERIFY"} THEN 2
  ELSE IF op \in {"IF", "NOTIF", "DROP", "DUP", "VERIFY", "SHA256", "TOALTSTACK"} THEN 1
  ELSE 0

\* The stack without its n top elements.
Popped(n) == SubSeq(stack, 1, Len(stack) - n)
Top(n) == stack[Len(stack) + 1 - n]

\* What an opcode that is no branch does to the two stacks.
Works(inst) ==
  \/ /\ \/ inst.op = "PUSH" /\ stack' = Append(stack, Bytes(inst.data))
        \/ inst.op = "0" /\ stack' = Append(stack, Bytes(""))
        \/ inst.op = "1" /\ stack' = Append(stack, Bytes("01"))
        \/ inst.op = "NOP" /\ UNCHANGED stack
        \/ inst.op \in {"DROP", "VERIFY"} /\ stack' = Popped(1)
        \/ inst.op = "DUP" /\ stack' = Append(stack, Top(1))
        \/ inst.op = "SWAP" /\ stack' = Popped(2) \o <<Top(1), Top(2)>>
        \/ /\ inst.op = "EQUAL"
           /\ stack' = Append(Popped(2), Bytes(IF Top(1) = Top(2) THEN "01" ELSE ""))
        \/ inst.op = "SHA256" /\ stack' = Append(Popped(1), Sha256(Top(1)))
        \/ inst.op = "CHECKSIG" /\ stack' = Append(Popped(2), Bytes(""))
        \/ inst.op \in {"EQUALVERIFY", "CHECKSIGVERIFY"} /\ stack' = Popped(2)
     /\ UNCHANGED altStack
  \/ inst.op = "TOALTSTACK" /\ stack' = Popped(1) /\ altStack' = Append(altStack, Top(1))
  \/ /\ inst.op = "FROMALTSTACK"
     /\ stack' = Append(stack, Last(altStack)) /\ altStack' = Front(altStack)

\* The opcodes that fail after they have taken their elements.
Refuses(inst) ==
  \/ inst.op = "EQUALVERIFY" /\ Top(1) # Top(2)
  \/ inst.op = "VERIFY" /\ ~IsTrue(Top(1))
  \/ inst.op = "CHECKSIGVERIFY"

\* There is nothing to take, or nothing the opcode may do.
Fails(inst) ==
  \/ executing /\ Len(stack) < Needs(inst.op)
  \/ executing /\ inst.op = "FROMALTSTACK" /\ altStack = <<>>
  \/ executing /\ inst.op \in {"RETURN", "UNSUPPORTED"}
  \/ inst.op \in {"ELSE", "ENDIF"} /\ ifStack = <<>>

Fail(inst) ==
  /\ Fails(inst)
  /\ success' = FALSE /\ taken' = Append(taken, FALSE)
  /\ UNCHANGED <<stack, altStack, ifStack, executing>>

Execute(inst) ==
  /\ inst.op \notin Branching /\ executing /\ ~Fails(inst)
  /\ Works(inst)
  /\ success' = ~Refuses(inst)
  /\ taken' = Append(taken, FALSE)
  /\ UNCHANGED <<ifStack, executing>>

Skip(inst) ==
  /\ inst.op \notin Branching /\ ~executing
  /\ taken' = Append(taken, FALSE)
  /\ UNCHANGED <<stack, altStack, ifStack, executing, success>>

\* step, which execute calls until the script ends or fails.
Step(inst) ==
  /\ success /\ Len(script) < MaxScript
  /\ script' = Append(script, inst)
  /\ \/ OpIf(inst) \/ OpElse(inst) \/ OpEndIf(inst)
     \/ Fail(inst) \/ Execute(inst) \/ Skip(inst)

ScriptNext == \E inst \in Instructions : Step(inst)

ScriptSpec == ScriptInit /\ [][ScriptNext]_scriptVars

-----------------------------------------------------------------------------
(* Properties.  The reference reads the nesting off the text of the script *)
(* and takes from the run only what each IF found on the stack.            *)

Opens(i) == script[i].op \in {"IF", "NOTIF"}
Depth(i) ==
  Cardinality({j \in 1 .. i : Opens(j)}) - Cardinality({j \in 1 .. i : script[j].op = "ENDIF"})

\* The IFs that the end of the script is inside of.
Enclosing ==
  {i \in DOMAIN script : Opens(i) /\ \A j \in i .. Len(script) : Depth(j) >= Depth(i)}

ElsesOf(i) == {j \in i + 1 .. Len(script) : script[j].op = "ELSE" /\ Depth(j) = Depth(i)}

\* Every variable has its type, and if_stack has one entry for each IF of the script
\* that is still open, taken or not.
ScriptTypeOK ==
  /\ script \in Seq(Instructions) /\ Len(script) <= MaxScript /\ Len(taken) = Len(script)
  /\ stack \in Seq(Values) /\ altStack \in Seq(Values)
  /\ ifStack \in Seq(BOOLEAN) /\ executing \in BOOLEAN /\ success \in BOOLEAN
  /\ success => Len(ifStack) = Cardinality(Enclosing)

\* The next instruction is executed exactly when every IF around it was taken, or not
\* taken if an odd number of its ELSEs lies between: the interpreter's running flag
\* follows the nesting of the text through skipped IFs and repeated ELSEs.
RunsAsNested ==
  success =>
    (executing <=> \A i \in Enclosing : taken[i] <=> Cardinality(ElsesOf(i)) % 2 = 0)

=============================================================================
