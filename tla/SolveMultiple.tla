---------------------------- MODULE SolveMultiple ----------------------------
(***************************************************************************)
(* KernelPatcher::solveMultiple() of Lilu's kern_patcher.hpp: a plugin     *)
(* looks up several symbols of a kext at once and stores the addresses it  *)
(* finds in variables of its own.  The plugin does so at every load of the *)
(* kext, which may lie elsewhere, or be another version, the next time;    *)
(* its variables keep what they were given before.                         *)
(***************************************************************************)
EXTENDS Words, Sequences

\* mach_vm_address_t is a word of Words.
CONSTANTS
    Symbols,     \* the symbols a plugin asks for
    Requests,    \* the request array: a sequence of symbols
    Addresses,   \* where a symbol may be found, 0 when it is not there
    Ranges       \* where the kext may lie: records [start, size]

ASSUME SolveMultipleAssumption ==
    /\ Requests \in Seq(Symbols)
    /\ W \in Nat /\ Limit = Weight[W]
    /\ Limit \in Nat \ {0}
    /\ 0 \in Addresses /\ Addresses \subseteq Words
    /\ Ranges \subseteq [start : Words \ {0}, size : Words \ {0}]

VARIABLES
    table,     \* the kext's symbol table
    range,     \* where the kext lies: start and size
    address,   \* address[i]: *requests[i].address
    code,      \* the patcher's last error
    pc,        \* "idle", "solve", "failed" or "panic"
    index,     \* the request the loop is at
    force,     \* the arguments force
    crash,     \* ... and crash
    result     \* what the last call returned

vars == <<table, range, address, code, pc, index, force, crash, result>>
kext == <<table, range>>

Indices == 1 .. Len(Requests)

Init ==
    /\ table = [s \in Symbols |-> 0]
    /\ range \in Ranges
    /\ address = [i \in Indices |-> 0]
    /\ code = "NoError"
    /\ pc = "idle"
    /\ index = 1
    /\ force = FALSE /\ crash = FALSE
    /\ result = "none"

-----------------------------------------------------------------------------
(* The kext and the lookup of one symbol *)

\* The kext is loaded, possibly again.
Load ==
    /\ pc = "idle"
    /\ table' \in [Symbols -> Addresses]
    /\ range' \in Ranges
    /\ result' = "none"
    /\ UNCHANGED <<address, code, pc, index, force, crash>>

\* Variant: the range includes its end.
InRangeOrAtEnd(addr) ==
    addr >= range.start /\ addr <= (range.start + range.size) % Limit

\* addr >= start && addr < start + size, in unsigned arithmetic.
InRange(addr) ==
    addr >= range.start /\ addr < (range.start + range.size) % Limit

Symbol == Requests[index]
Addr == table[Symbol]

-----------------------------------------------------------------------------
(* The loop *)

Call(f, c) ==
    /\ pc = "idle"
    /\ pc' = IF Requests = << >> THEN "idle" ELSE "solve"
    /\ index' = 1
    /\ force' = f /\ crash' = c
    /\ result' = IF Requests = << >> THEN "true" ELSE "none"
    /\ UNCHANGED <<kext, address, code>>

Return(answer) ==
    /\ pc' = "idle"
    /\ index' = 1
    /\ result' = answer

\* index < num, for the next index.
More(i) == i < Len(Requests)

NextRequest ==
    IF More(index)
    THEN pc' = "solve" /\ index' = index + 1 /\ UNCHANGED result
    ELSE Return("true")

Solved ==
    /\ pc = "solve"
    /\ Addr # 0
    /\ InRange(Addr)
    /\ address' = [address EXCEPT ![index] = Addr]
    /\ NextRequest
    /\ UNCHANGED <<kext, code, force, crash>>

OutOfRange ==
    /\ pc = "solve"
    /\ Addr # 0
    /\ ~ InRange(Addr)
    /\ code' = "InvalidSymbolFound"
    /\ pc' = IF crash THEN "panic" ELSE "failed"
    /\ UNCHANGED <<kext, address, index, force, crash, result>>

\* solveSymbol(id, symbol) found nothing.
NotFound ==
    /\ pc = "solve"
    /\ Addr = 0
    /\ code' = "NoSymbolFound"
    /\ pc' = "failed"
    /\ UNCHANGED <<kext, address, index, force, crash, result>>

\* Variant: the error is cleared only when the loop goes on.
FailedKeepsError ==
    /\ pc = "failed"
    /\ IF force THEN code' = "NoError" /\ NextRequest
                ELSE Return("false") /\ UNCHANGED code
    /\ UNCHANGED <<kext, address, force, crash>>

\* Variant: the loop always goes on.
FailedIgnored ==
    /\ pc = "failed"
    /\ code' = "NoError"
    /\ NextRequest
    /\ UNCHANGED <<kext, address, force, crash>>

\* clearError(); if (!force) return false;
Failed ==
    /\ pc = "failed"
    /\ code' = "NoError"
    /\ IF force THEN NextRequest ELSE Return("false")
    /\ UNCHANGED <<kext, address, force, crash>>

Next ==
    \/ Load
    \/ \E f, c \in BOOLEAN : Call(f, c)
    \/ Solved
    \/ OutOfRange
    \/ NotFound
    \/ Failed

Spec == Init /\ [][Next]_vars

-----------------------------------------------------------------------------
(* Safety *)

InKext(addr) == addr \in range.start .. (range.start + range.size - 1)

\* The address of request i is that of its symbol in the kext loaded now.
Current(i) == address[i] = table[Requests[i]] /\ InKext(address[i])

Solvable(s) == table[s] # 0 /\ InRange(table[s])

\* Request i holds its address, or force has let the loop pass where there is none.
Answered(i) == Current(i) \/ (force /\ ~ Solvable(Requests[i]))

\* A call that returned true has solved every symbol in the kext that is loaded now:
\* no address of an earlier load survives in a variable.  With force this holds of
\* the symbols that can be solved, also behind one that cannot.
TrueMeansCurrent == result = "true" => \A i \in Indices : Answered(i)

\* No address outside the kext is ever stored, even where start + size wraps.
StoresStayInKext ==
    [][\A i \in Indices : address'[i] # address[i] => InKext(address'[i])]_vars

\* No call leaves an error behind for the next user of the patcher.
NoErrorLeftBehind == pc = "idle" => code = "NoError"

(* Type invariant *)

TypeOK ==
    /\ table \in [Symbols -> Addresses]
    /\ range \in Ranges
    /\ address \in [Indices -> Addresses]
    /\ pc \in {"idle", "solve", "failed", "panic"}
    /\ index \in Nat
    /\ pc \in {"solve", "failed"} => index \in Indices
=============================================================================
