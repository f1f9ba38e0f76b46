------------------------------- MODULE Stubs --------------------------------
(***************************************************************************)
(* The code that is assembled to call a function of the client from the    *)
(* middle of one of the game's (common/utils/hook.cpp, renderer.cpp): the  *)
(* game must not notice, and the function must find the stack as the       *)
(* calling convention wants it.                                            *)
(*                                                                         *)
(* The stack is counted in words of 8 bytes: it is aligned where the       *)
(* pointer is even.  Code that was compiled always keeps it at a word.     *)
(***************************************************************************)
EXTENDS Naturals, Sequences

\* In the order in which pushaq pushes them.
PushAq == <<"flags", "rax", "rcx", "rdx", "rbx", "rsp", "rbp", "rsi", "rdi",
            "r8", "r9", "r10", "r11", "r12", "r13", "r14", "r15">>

\* These and xmm0 to xmm5, which stand here as one and are not pushed.
Registers == {PushAq[i] : i \in DOMAIN PushAq} \cup {"xmm"}

\* What a function may change.
Volatile == {"rax", "rcx", "rdx", "r8", "r9", "r10", "r11", "flags", "xmm"}

Junk == 0

\* A machine: what the registers hold, and the words of the stack.
Machine(registers, stack) == [registers |-> registers, stack |-> stack]

Rsp(m) == m.registers["rsp"]

Put(m, register, value) == [m EXCEPT !.registers[register] = value]

-----------------------------------------------------------------------------
(* Instructions *)

Store(m, at, value) == [m EXCEPT !.stack[at] = value]

\* What is pushed of rsp is its value before.
Push(m, register) ==
    Put(Store(m, Rsp(m) - 1, m.registers[register]), "rsp", Rsp(m) - 1)

\* What is popped into rsp stays.
Pop(m, register) ==
    Put(Put(m, "rsp", Rsp(m) + 1), register, m.stack[Rsp(m)])

Test(m) == Put(m, "flags", Junk)

Sub(m, register, words) == Put(Test(m), register, m.registers[register] - words)

Add(m, register, words) == Put(Test(m), register, m.registers[register] + words)

\* lea changes no flags.
Lea(m, words) == Put(m, "rsp", Rsp(m) + words)

-----------------------------------------------------------------------------
(* The assembler's own instructions *)

Pushed(m) ==
    LET pushed[n \in 0 .. Len(PushAq)] == IF n = 0 THEN m ELSE Push(pushed[n - 1], PushAq[n])
    IN  pushed[Len(PushAq)]

Pushaq(m) == Sub(Pushed(m), "rsp", 1)

PopAq == <<"r15", "r14", "r13", "r12", "r11", "r10", "r9", "r8",
           "rdi", "rsi", "rbp", "rsp", "rbx", "rdx", "rcx", "rax", "flags">>

Popped(m) ==
    LET popped[n \in 0 .. Len(PopAq)] == IF n = 0 THEN m ELSE Pop(popped[n - 1], PopAq[n])
    IN  popped[Len(PopAq)]

Popaq(m) == Popped(Add(m, "rsp", 1))

\* The pointer that is saved is that of before the padding.
Saved(m) ==
    LET pushed == Push(Push(Sub(m, "rsp", 1), "rsp"), "rax")
        loaded == Add(Put(pushed, "rax", pushed.stack[Rsp(pushed) + 1]), "rax", 1)
    IN  Store(loaded, Rsp(loaded) + 1, loaded.registers["rax"])

\* One word of padding where there would be none too many, and room for the callee.
PrepareStackForCall(m) ==
    LET tested == Test(m)
        saved == IF Rsp(m) % 2 = 0 THEN Pop(Saved(tested), "rax") ELSE Push(tested, "rsp")
    IN  Sub(saved, "rsp", 8)

RestoreStackAfterCall(m) == Pop(Lea(m, 8), "rsp")

\* A function changes what it may: registers, the words below its return address,
\* the address itself and the four words above, which the caller leaves it.
Call(m, changed, scribbles) ==
    [registers |-> [r \in Registers |-> IF r \in changed THEN Junk ELSE m.registers[r]],
     stack |-> [a \in DOMAIN m.stack |->
                   IF a < Rsp(m) \/ (scribbles /\ a < Rsp(m) + 4) THEN Junk ELSE m.stack[a]]]

\* The argument is passed in rcx, as renderer_stub gets its frame.
Before(m) == PrepareStackForCall(Put(Pushaq(m), "rcx", m.registers["rbx"]))

Stub(m, changed, scribbles) ==
    Popaq(RestoreStackAfterCall(Call(Before(m), changed, scribbles)))

-----------------------------------------------------------------------------
(* Property *)

\* The stack goes on below the stack pointer for as many words as a stub uses.
Depth == 21

IsMachine(m) ==
    /\ m = Machine([r \in Registers |-> m.registers[r]], [a \in DOMAIN m.stack |-> m.stack[a]])
    /\ Rsp(m) \in Nat /\ DOMAIN m.stack \subseteq Nat
    /\ Rsp(m) - Depth .. Rsp(m) - 1 \subseteq DOMAIN m.stack

\* Wherever the stack pointer is, and whatever the function changes of what it may:
\* it is called with an aligned stack and its argument, and the game goes on with
\* its own part of the stack, the flags and the registers as they were. Only xmm0 to
\* xmm5 stay as the function leaves them: no stub saves those, although renderer_stub
\* uses floats (hook.cpp:174-254, renderer.cpp:69-76).
Unnoticed(m, changed, scribbles) ==
    LET after == Stub(m, changed, scribbles)
    IN  /\ Rsp(Before(m)) % 2 = 0
        /\ Before(m).registers["rcx"] = m.registers["rbx"]
        /\ \A r \in Registers \ (changed \cap {"xmm"}) : after.registers[r] = m.registers[r]
        /\ \A a \in DOMAIN m.stack : a >= Rsp(m) => after.stack[a] = m.stack[a]
=============================================================================
