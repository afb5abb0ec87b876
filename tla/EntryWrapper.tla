---------------------------- MODULE EntryWrapper ----------------------------
(***************************************************************************)
(* The code UserPatcher::injectPayload() puts in front of a program's      *)
(* entry point: entryWrapper32 and entryWrapper64 of wrappers.inc, which   *)
(* build.tool assembles from entry32.S and entry64.S.  The wrapper calls   *)
(* the booter with the arguments of main() and then jumps to main().       *)
(*                                                                         *)
(* Instructions carry their length in bytes, so that an offset in the      *)
(* payload is what the assembler made it; a stack address counts words.    *)
(* Addresses are natural numbers, opaque values negative ones.             *)
(***************************************************************************)
EXTENDS Integers, SequencesExt

CONSTANTS
    Modes,      \* the wrappers in use
    EntrySps    \* the stack pointers a program may start with

ASSUME EntryWrapperAssumption ==
    /\ Modes \subseteq {"entry32", "entry64"}
    /\ EntrySps \subseteq Nat \ 0 .. 15

VARIABLES
    mode,    \* the wrapper that was injected
    at,      \* where control is: "idle", "wrapper", "booter", "main", "lost"
    ip,      \* the next instruction
    reg,     \* the registers
    stack,   \* the words of the stack
    entry    \* registers and stack when the program was entered

wvars == <<mode, at, ip, reg, stack, entry>>

Booter == -1   \* the address of the booter
Main == -2     \* the original entry point
Junk == -9     \* a value nobody relies on
Arg(k) == -10 - k   \* argc, argv, envp and apple for k = 1 .. 4
Args == 1 .. 4

I(op, a, b, size) == [op |-> op, a |-> a, b |-> b, size |-> size]

\* The instructions of entry32.S; "data" stands for a pointer in the code.
Code32 == <<
    I("push", "bp", "", 1), I("mov", "sp", "bp", 2), I("and", 4, "", 3),
    I("pusharg", 5, "", 3), I("pusharg", 4, "", 3), I("pusharg", 3, "", 3), I("pusharg", 2, "", 3),
    I("callover", "", "", 5), I("data", "", "", 4), I("pop", "dx", "", 1),
    I("load", "dx", "", 2), I("callreg", "dx", "", 2), I("xor", "ax", "", 2),
    I("mov", "bp", "sp", 2), I("pop", "bp", "", 1), I("callover", "", "", 5),
    I("data", "", "", 4), I("pop", "dx", "", 1), I("load", "dx", "", 2), I("jmpreg", "dx", "", 2)>>

\* Variant: the registers come back in the order in which they were saved.
Code64PopsInOrder == <<
    I("push", "bp", "", 1), I("mov", "sp", "bp", 3), I("and", 2, "", 4),
    I("push", "di", "", 1), I("push", "si", "", 1), I("push", "dx", "", 1), I("push", "cx", "", 1),
    I("callmem", 24, "", 6), I("xor", "ax", "", 2),
    I("pop", "di", "", 1), I("pop", "si", "", 1), I("pop", "dx", "", 1), I("pop", "cx", "", 1),
    I("mov", "bp", "sp", 3), I("pop", "bp", "", 1), I("jmpmem", 0, "", 6)>>

\* The instructions of entry64.S up to its two pointers.
Code64 == <<
    I("push", "bp", "", 1), I("mov", "sp", "bp", 3), I("and", 2, "", 4),
    I("push", "di", "", 1), I("push", "si", "", 1), I("push", "dx", "", 1), I("push", "cx", "", 1),
    I("callmem", 24, "", 6), I("xor", "ax", "", 2),
    I("pop", "cx", "", 1), I("pop", "dx", "", 1), I("pop", "si", "", 1), I("pop", "di", "", 1),
    I("mov", "bp", "sp", 3), I("pop", "bp", "", 1), I("jmpmem", 0, "", 6)>>

Code == IF mode = "entry32" THEN Code32 ELSE Code64

\* The offset of each instruction in the payload.
Offsets(code) ==
    LET o[i \in 1 .. Len(code)] == IF i = 1 THEN 0 ELSE o[i - 1] + code[i - 1].size
    IN  o
Offset(i) == Offsets(Code)[i]

\* What the injector has written at EntryWrapper..Booter and ..Entry.
EntryWrapperBooter == IF mode = "entry32" THEN 23 ELSE 42
EntryWrapperEntry == IF mode = "entry32" THEN 42 ELSE 34
Pointer(offset) ==
    CASE offset = EntryWrapperBooter -> Booter
      [] offset = EntryWrapperEntry -> Main
      [] OTHER -> Junk

Registers == {"ax", "bp", "cx", "di", "dx", "si", "sp"}

\* How main() and the booter get their arguments.
ArgRegister == <<"di", "si", "dx", "cx">>

WrapperInit ==
    /\ mode = "none" /\ at = "idle" /\ ip = 1
    /\ reg = [r \in Registers |-> 0]
    /\ stack = << >>
    /\ entry = [reg |-> reg, stack |-> stack]

\* A program is started with the wrapper m at its entry point.
Enter(m, sp) ==
    /\ at \in {"idle", "main"}
    /\ mode' = m /\ at' = "wrapper" /\ ip' = 1
    /\ reg' = [r \in Registers |->
          IF r = "sp" THEN sp
          ELSE IF m = "entry64" /\ r \in Range(ArgRegister)
               THEN Arg(CHOOSE k \in Args : ArgRegister[k] = r)
               ELSE Junk - 20]
    /\ stack' = [a \in 0 .. (sp + 4) |->
          IF m = "entry32" /\ a > sp THEN Arg(a - sp) ELSE Junk - 30]
    /\ entry' = [reg |-> reg', stack |-> stack']

-----------------------------------------------------------------------------
Executes(op) == at = "wrapper" /\ Code[ip].op = op

A == Code[ip].a
B == Code[ip].b

Step == ip' = ip + 1 /\ UNCHANGED <<mode, at, entry>>

Pushed(value) ==
    /\ reg' = [reg EXCEPT !["sp"] = @ - 1]
    /\ stack' = [stack EXCEPT ![reg["sp"] - 1] = value]

Push == Executes("push") /\ Pushed(reg[A]) /\ Step

\* push 8(%ebp) ... push 20(%ebp)
PushArg == Executes("pusharg") /\ Pushed(stack[reg["bp"] + A]) /\ Step

Pop ==
    /\ Executes("pop")
    /\ reg' = [reg EXCEPT ![A] = stack[reg["sp"]], !["sp"] = @ + 1]
    /\ UNCHANGED stack
    /\ Step

Mov ==
    /\ Executes("mov")
    /\ reg' = [reg EXCEPT ![B] = reg[A]]
    /\ UNCHANGED stack
    /\ Step

Xor ==
    /\ Executes("xor")
    /\ reg' = [reg EXCEPT ![A] = 0]
    /\ UNCHANGED stack
    /\ Step

\* and $-16, %sp: A words make 16 bytes.
Align ==
    /\ Executes("and")
    /\ reg' = [reg EXCEPT !["sp"] = @ - (@ % A)]
    /\ UNCHANGED stack
    /\ Step

\* call get_booter, call get_entrypoint: the return address is the pointer's.
CallOver ==
    /\ Executes("callover")
    /\ Pushed(Offset(ip + 1))
    /\ ip' = ip + 2
    /\ UNCHANGED <<mode, at, entry>>

Load ==
    /\ Executes("load")
    /\ reg' = [reg EXCEPT ![A] = Pointer(reg[A])]
    /\ UNCHANGED stack
    /\ Step

\* The pointer a call or a jump goes through; A is a displacement from the
\* next instruction where it is not a register.
Target ==
    IF Code[ip].op \in {"callmem", "jmpmem"}
    THEN Pointer(Offset(ip) + Code[ip].size + A)
    ELSE reg[A]

Call ==
    /\ Executes("callmem") \/ Executes("callreg")
    /\ at' = IF Target = Booter THEN "booter" ELSE "lost"
    /\ UNCHANGED <<mode, ip, reg, stack, entry>>

Jump ==
    /\ Executes("jmpmem") \/ Executes("jmpreg")
    /\ at' = IF Target = Main THEN "main" ELSE "lost"
    /\ UNCHANGED <<mode, ip, reg, stack, entry>>

\* The booter may destroy what its calling convention does not protect: the
\* volatile registers, the stack below its arguments, and its arguments.
Volatile == IF mode = "entry32" THEN {"ax", "cx", "dx"} ELSE {"ax", "cx", "di", "dx", "si"}
Owns(a) == a < reg["sp"] + (IF mode = "entry32" THEN 4 ELSE 0)

BooterReturns ==
    /\ at = "booter"
    /\ \E gone \in SUBSET Volatile :
          reg' = [r \in Registers |-> IF r \in gone THEN Junk ELSE reg[r]]
    /\ stack' = [a \in DOMAIN stack |-> IF Owns(a) THEN Junk ELSE stack[a]]
    /\ at' = "wrapper"
    /\ ip' = ip + 1
    /\ UNCHANGED <<mode, entry>>

-----------------------------------------------------------------------------
\* The booter starts on an aligned stack with the arguments of main().
BooterServed ==
    at = "booter" =>
        IF mode = "entry32"
        THEN reg["sp"] % 4 = 0 /\ \A k \in Args : stack[reg["sp"] + k - 1] = Arg(k)
        ELSE reg["sp"] % 2 = 0 /\ \A k \in Args : reg[ArgRegister[k]] = Arg(k)

\* main() starts with the stack and the registers it would have had.
MainUntouched ==
    at = "main" =>
        /\ reg["ax"] = 0
        /\ \A r \in Registers \ (IF mode = "entry32" THEN Volatile ELSE {"ax"}) :
              reg[r] = entry.reg[r]
        /\ \A a \in DOMAIN stack : a >= reg["sp"] => stack[a] = entry.stack[a]

\* Whatever the booter destroys and however the stack was aligned, it gets the
\* arguments of main(), and then main() runs as if it had been entered first;
\* the wrapper never goes through an offset the injector has not written.
Transparent == at # "lost" /\ BooterServed /\ MainUntouched
=============================================================================
