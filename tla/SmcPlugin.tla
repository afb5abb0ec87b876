------------------------------ MODULE SmcPlugin ------------------------------
(***************************************************************************)
(* A plugin of VirtualSMC as the VirtualSMC SDK defines it: VirtualSMC     *)
(* collects the device information (SMCInfo), the plugin fills its two     *)
(* KeyStorage vectors, sorts them with VirtualSMCKeyValue::compare() and   *)
(* submits them, and keys are from then on looked up by binary search.     *)
(* addKey(), the lookup and the device are in the VirtualSMC binary.       *)
(*                                                                         *)
(* A key is four bytes, and the integer a little-endian machine reads from *)
(* them; Base stands for the 256 values of a byte.                         *)
(***************************************************************************)
EXTENDS Integers, SequencesExt

CONSTANTS
    Base,    \* the number of values of a byte
    Names,   \* the key names, sequences of four bytes
    Null

ASSUME SmcPluginAssumption ==
    /\ Base \in Nat \ {0}
    /\ Names \subseteq [1 .. 4 -> 0 .. (Base - 1)]

VARIABLES
    info,      \* info[id]: for which buffers its first and last byte were written
    filled,    \* the buffers that were filled
    storage,   \* storage[h]: a KeyStorage; h is "data" or "dataHidden"
    phase,     \* "device", "adding", "sorted" or "submitted"
    search     \* the lookup that is going on

smcvars == <<info, filled, storage, phase, search>>

V == INSTANCE EVector WITH Junk <- Null

-----------------------------------------------------------------------------
(* SMCInfo *)

RevisionSize == 6
BranchSize == 8
ModelSize == 64
MacSize == 6
SerialSize == 16
MotherboardSerialSize == 17

\* The members of SMCInfo, in the order they are declared in.
Buffers == <<"RevMain", "RevFlasherBase", "RevFlasherUpdate", "Branch", "Platform",
    "HardwareModel", "MacAddress", "Serial", "MotherboardSerial">>

\* The lengths of the arrays.
Declared == <<RevisionSize, RevisionSize, RevisionSize, BranchSize, BranchSize,
    ModelSize, MacSize, SerialSize, MotherboardSerialSize>>

\* Bytes need no padding: each array begins where the one before it ends.
Offset[id \in DOMAIN Declared] ==
    IF id = 1 THEN 0 ELSE Offset[id - 1] + Declared[id - 1]

\* getBuffer(id): where the array begins.
GetBuffer(id) == Offset[id]

\* Variant: both serial numbers have the longer size.
GetBufferSizeSerials(id) ==
    CASE Buffers[id] \in {"RevMain", "RevFlasherBase", "RevFlasherUpdate"} -> RevisionSize
      [] Buffers[id] \in {"Branch", "Platform"} -> BranchSize
      [] Buffers[id] = "HardwareModel" -> ModelSize
      [] Buffers[id] = "MacAddress" -> MacSize
      [] Buffers[id] \in {"Serial", "MotherboardSerial"} -> MotherboardSerialSize

GetBufferSize(id) ==
    CASE Buffers[id] \in {"RevMain", "RevFlasherBase", "RevFlasherUpdate"} -> RevisionSize
      [] Buffers[id] \in {"Branch", "Platform"} -> BranchSize
      [] Buffers[id] = "HardwareModel" -> ModelSize
      [] Buffers[id] = "MacAddress" -> MacSize
      [] Buffers[id] = "Serial" -> SerialSize
      [] Buffers[id] = "MotherboardSerial" -> MotherboardSerialSize

\* isValid(): the platform and the hardware model begin with a byte that is
\* not zero, which is what filling them writes.
IsValid == \A id \in DOMAIN Buffers :
    Buffers[id] \in {"Platform", "HardwareModel"} => info[id].first # Null

\* Writing GetBufferSize(id) bytes from GetBuffer(id) on.
Fill(id) ==
    /\ phase = "device"
    /\ id \notin filled
    /\ LET written == GetBuffer(id) .. (GetBuffer(id) + GetBufferSize(id) - 1)
       IN  info' = [b \in DOMAIN info |->
               [first |-> IF GetBuffer(b) \in written THEN id ELSE info[b].first,
                last |-> IF GetBuffer(b) + Declared[b] - 1 \in written THEN id ELSE info[b].last]]
    /\ filled' = filled \cup {id}
    /\ UNCHANGED <<storage, phase, search>>

\* The device is known: everything, or with a T2 its platform and model alone.
Known ==
    /\ phase = "device"
    /\ {Buffers[id] : id \in filled} \in {Range(Buffers), {"Platform", "HardwareModel"}}
    /\ phase' = "adding"
    /\ UNCHANGED <<info, filled, storage, search>>

-----------------------------------------------------------------------------
(* Keys *)

\* SMC_MAKE_IDENTIFIER(A, B, C, D) without EFIAPI.
Identifier(name) ==
    ((name[4] * Base + name[3]) * Base + name[2]) * Base + name[1]

\* OSSwapInt32
OSSwapInt32(key) ==
    LET upper == key \div Base
        upper2 == upper \div Base
        upper3 == upper2 \div Base
    IN  (((key % Base) * Base + (upper % Base)) * Base + (upper2 % Base)) * Base + (upper3 % Base)

\* Variant: the keys are compared as this machine reads them.
CompareUnswapped(a, b) == IF a = b THEN 0 ELSE IF a < b THEN -1 ELSE 1

\* VirtualSMCKeyValue::compare(const SMC_KEY, const SMC_KEY)
Compare(a, b) == IF a = b THEN 0 ELSE IF OSSwapInt32(a) < OSSwapInt32(b) THEN -1 ELSE 1

Lists == {"data", "dataHidden"}

Keys(h) == Range(V!Stored(storage[h]))

NoSearch == [list |-> Null, key |-> 0, lo |-> 0, hi |-> 0, answer |-> Null]

SmcInit ==
    /\ info = [id \in DOMAIN Buffers |-> [first |-> Null, last |-> Null]]
    /\ filled = {}
    /\ storage = [h \in Lists |-> V!Empty]
    /\ phase = "device"
    /\ search = NoSearch

\* addKey(key, data, val) with a value, when push_back() succeeds; without a
\* value, or if it fails, nothing happens.  A plugin adds a key once.
AddKey(h, name) ==
    /\ phase = "adding"
    /\ Identifier(name) \notin Keys("data") \cup Keys("dataHidden")
    /\ storage' = [storage EXCEPT ![h] = V!PushBack(@, 1, Identifier(name))]
    /\ UNCHANGED <<info, filled, phase, search>>

\* What qsort() may make of s: its elements, none behind a greater one.
SortedFrom(s) ==
    {[i \in DOMAIN s |-> s[p[i]]] :
        p \in {q \in Bijection(DOMAIN s, DOMAIN s) :
            \A i, j \in DOMAIN s : i < j => Compare(s[q[i]], s[q[j]]) <= 0}}

\* qsort() of both vectors.
Sort ==
    /\ phase = "adding"
    /\ \E data \in SortedFrom(storage["data"].ptr),
          hidden \in SortedFrom(storage["dataHidden"].ptr) :
          storage' = [storage EXCEPT !["data"].ptr = data, !["dataHidden"].ptr = hidden]
    /\ phase' = "sorted"
    /\ UNCHANGED <<info, filled, search>>

\* VirtualSMCSubmitPlugin, answered by a device that knows itself.
Submit ==
    /\ phase = "sorted"
    /\ IsValid
    /\ phase' = "submitted"
    /\ UNCHANGED <<info, filled, storage, search>>

\* VirtualSMC looks a key up: in the middle of what is left, lo .. hi - 1.
Lookup(h, name) ==
    /\ phase = "submitted"
    /\ search.list = Null
    /\ search' = [NoSearch EXCEPT !.list = h, !.key = Identifier(name), !.hi = storage[h].cnt]
    /\ UNCHANGED <<info, filled, storage, phase>>

Probe ==
    /\ search.list # Null
    /\ search.answer = Null
    /\ LET mid == (search.lo + search.hi) \div 2
           order == Compare(search.key, storage[search.list].ptr[mid + 1])
       IN  search' =
               IF search.lo = search.hi THEN [search EXCEPT !.answer = FALSE]
               ELSE IF order = 0 THEN [search EXCEPT !.answer = TRUE]
               ELSE IF order < 0 THEN [search EXCEPT !.hi = mid]
               ELSE [search EXCEPT !.lo = mid + 1]
    /\ UNCHANGED <<info, filled, storage, phase>>

Answer ==
    /\ search.answer # Null
    /\ search' = NoSearch
    /\ UNCHANGED <<info, filled, storage, phase>>

SmcNext ==
    \/ \E id \in DOMAIN Buffers : Fill(id)
    \/ Known
    \/ \E h \in Lists, name \in Names : AddKey(h, name)
    \/ Sort
    \/ Submit
    \/ \E h \in Lists, name \in Names : Lookup(h, name)
    \/ Probe
    \/ Answer

SmcSpec == SmcInit /\ [][SmcNext]_smcvars

-----------------------------------------------------------------------------
(* Safety *)

\* The order of two names, byte by byte.
Precedes(m, n) ==
    \E k \in 1 .. 4 : m[k] < n[k] /\ \A j \in 1 .. (k - 1) : m[j] = n[j]

NameOf(key) == CHOOSE name \in Names : Identifier(name) = key

\* A plugin's keys are submitted in the order of their names, although the
\* machine reads the four bytes of a name in the other order, and a lookup
\* finds a key exactly if the plugin has added it to that vector.
LookupMatchesNames ==
    /\ phase \in {"sorted", "submitted"} =>
          \A h \in Lists : \A i \in 1 .. (storage[h].cnt - 1) :
              Precedes(NameOf(storage[h].ptr[i]), NameOf(storage[h].ptr[i + 1]))
    /\ search.answer # Null => search.answer = (search.key \in Keys(search.list))

\* Filling a buffer up to the size it is said to have changes no byte of
\* another: each buffer keeps what it was filled with.
BuffersApart ==
    \A id \in filled : info[id] = [first |-> id, last |-> id]
=============================================================================
