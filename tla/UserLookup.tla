----------------------------- MODULE UserLookup -----------------------------
(***************************************************************************)
(* The lookup storage of UserPatcher (kern_user.hpp): a vector of          *)
(* LookupStorage objects, each with a page buffer and a vector of          *)
(* PatchRef objects, each with two vectors of offsets.  Every allocation   *)
(* on the way may fail.                                                    *)
(*                                                                         *)
(* The loader (loadFilesForPatching(), whose code is in the Lilu binary)   *)
(* is the client: it owns what it has created until a push_back()          *)
(* succeeds, and calls the deleter of what it could not insert.            *)
(***************************************************************************)
EXTENDS Integers, FiniteSets, SequencesExt

CONSTANTS
    Storages,   \* the LookupStorage objects
    PatchRefs,  \* the PatchRef objects
    MaxOffs,    \* bound on the offsets pushed to a PatchRef
    Null

ASSUME UserLookupAssumption ==
    /\ Null \notin Storages \cup PatchRefs
    /\ MaxOffs \in Nat

VARIABLES
    lookupStorage,   \* the vector of UserPatcher
    page,            \* page[s]: the page buffer was allocated
    refs,            \* refs[s]: the vector of LookupStorage s
    pageOffs, segOffs,   \* the vectors of each PatchRef
    newStorage,      \* the LookupStorage the loader owns
    creating,        \* it is still inside LookupStorage::create()
    newRef,          \* the PatchRef the loader owns
    live,            \* the blocks of memory that are allocated
    badFree          \* a block that was not allocated has been freed

objects == <<page, refs, pageOffs, segOffs>>
loader == <<newStorage, creating, newRef>>
memory == <<live, badFree>>
lvars == <<lookupStorage, objects, loader, memory>>

V == INSTANCE EVector WITH Junk <- Null

Block(kind, owner) == <<kind, owner>>

\* The array of a vector is a block while the vector has one.
Array(v, kind, owner) == IF v.ptr = << >> THEN {} ELSE {Block(kind, owner)}

LookupInit ==
    /\ lookupStorage = V!Empty
    /\ page = [s \in Storages |-> FALSE]
    /\ refs = [s \in Storages |-> V!Empty]
    /\ pageOffs = [r \in PatchRefs |-> V!Empty]
    /\ segOffs = [r \in PatchRefs |-> V!Empty]
    /\ newStorage = Null /\ creating = FALSE /\ newRef = Null
    /\ live = {} /\ badFree = FALSE

\* new, kern_os_malloc and kern_os_realloc when they succeed.
Allocate(blocks) == live' = live \cup blocks /\ UNCHANGED badFree

\* delete and kern_os_free.
Release(blocks) ==
    /\ live' = live \ blocks
    /\ badFree' = (badFree \/ ~ blocks \subseteq live)

-----------------------------------------------------------------------------
(* The deleters: the blocks each of them frees *)

\* PatchRef::deleter()
FreedByRef(r) ==
    Array(pageOffs[r], "pageOffs", r) \cup Array(segOffs[r], "segOffs", r)
        \cup {Block("PatchRef", r)}

\* LookupStorage::deleter(): the page if there is one, refs.deinit(), itself.
FreedByStorage(s) ==
    (IF page[s] THEN {Block("Page", s)} ELSE {})
        \cup (UNION {FreedByRef(r) : r \in Range(V!Stored(refs[s]))})
        \cup Array(refs[s], "refs", s)
        \cup {Block("LookupStorage", s)}

\* The objects do not survive their deleter.
Forget(gone, goneRefs) ==
    /\ page' = [s \in Storages |-> IF s \in gone THEN FALSE ELSE page[s]]
    /\ refs' = [s \in Storages |-> IF s \in gone THEN V!Empty ELSE refs[s]]
    /\ pageOffs' = [r \in PatchRefs |-> IF r \in goneRefs THEN V!Empty ELSE pageOffs[r]]
    /\ segOffs' = [r \in PatchRefs |-> IF r \in goneRefs THEN V!Empty ELSE segOffs[r]]

RefsOf(s) == Range(V!Stored(refs[s]))

DeleteStorage(s) ==
    /\ Release(FreedByStorage(s))
    /\ Forget({s}, RefsOf(s))

-----------------------------------------------------------------------------
(* LookupStorage::create() and the insertion *)

Unused(kind, objs) == {o \in objs : Block(kind, o) \notin live}

\* new LookupStorage; failing, create() returns nullptr and nothing happens.
CreateNew ==
    /\ newStorage = Null
    /\ \E s \in Unused("LookupStorage", Storages) :
          newStorage' = s /\ Allocate({Block("LookupStorage", s)})
    /\ creating' = TRUE
    /\ UNCHANGED <<lookupStorage, objects, newRef>>

CreatePage ==
    /\ creating
    /\ page' = [page EXCEPT ![newStorage] = TRUE]
    /\ Allocate({Block("Page", newStorage)})
    /\ creating' = FALSE
    /\ UNCHANGED <<lookupStorage, refs, pageOffs, segOffs, newStorage, newRef>>

\* Variant: create() returns nullptr and keeps the object.
CreatePageFailsLeaks ==
    /\ creating
    /\ newStorage' = Null
    /\ creating' = FALSE
    /\ UNCHANGED <<lookupStorage, objects, newRef, memory>>

\* Page::create() fails: the object is deleted without ever having had a page.
CreatePageFails ==
    /\ creating
    /\ DeleteStorage(newStorage)
    /\ newStorage' = Null
    /\ creating' = FALSE
    /\ UNCHANGED <<lookupStorage, newRef>>

\* A vector that has to grow for one more element and is given the memory.
\* Failing, push_back() returns false and the loader keeps the element.
Grown(v, kind, owner) ==
    IF V!Fits(v, v.cnt + 1) THEN {} ELSE {Block(kind, owner)}

PushStorage(mul) ==
    /\ newStorage # Null
    /\ ~ creating
    /\ lookupStorage' = V!PushBack(lookupStorage, mul, newStorage)
    /\ Allocate(Grown(lookupStorage, "lookupStorage", Null))
    /\ newStorage' = Null
    /\ UNCHANGED <<objects, creating, newRef>>

\* The loader gives up a LookupStorage it cannot insert or has no use for.
DropStorage ==
    /\ newStorage # Null
    /\ ~ creating
    /\ DeleteStorage(newStorage)
    /\ newStorage' = Null
    /\ UNCHANGED <<lookupStorage, creating, newRef>>

-----------------------------------------------------------------------------
(* PatchRef *)

\* The LookupStorage objects the loader can reach.
Reachable == Range(V!Stored(lookupStorage)) \cup ({newStorage} \ {Null})

CreateRef ==
    /\ ~ creating
    /\ newRef = Null
    /\ \E r \in Unused("PatchRef", PatchRefs) :
          newRef' = r /\ Allocate({Block("PatchRef", r)})
    /\ UNCHANGED <<lookupStorage, objects, newStorage, creating>>

ReachableRefs == (UNION {RefsOf(s) : s \in Reachable}) \cup ({newRef} \ {Null})

\* One patch location: its page offset and its segment offset.
PushPageOff(r, mul) ==
    /\ ~ creating
    /\ pageOffs[r].cnt < MaxOffs
    /\ pageOffs' = [pageOffs EXCEPT ![r] = V!PushBack(@, mul, 0)]
    /\ Allocate(Grown(pageOffs[r], "pageOffs", r))
    /\ UNCHANGED <<lookupStorage, page, refs, segOffs, loader>>

PushSegOff(r, mul) ==
    /\ ~ creating
    /\ segOffs[r].cnt < MaxOffs
    /\ segOffs' = [segOffs EXCEPT ![r] = V!PushBack(@, mul, 0)]
    /\ Allocate(Grown(segOffs[r], "segOffs", r))
    /\ UNCHANGED <<lookupStorage, page, refs, pageOffs, loader>>

PushRef(s, mul) ==
    /\ ~ creating
    /\ newRef # Null
    /\ refs' = [refs EXCEPT ![s] = V!PushBack(@, mul, newRef)]
    /\ Allocate(Grown(refs[s], "refs", s))
    /\ newRef' = Null
    /\ UNCHANGED <<lookupStorage, page, pageOffs, segOffs, newStorage, creating>>

DropRef ==
    /\ ~ creating
    /\ newRef # Null
    /\ Release(FreedByRef(newRef))
    /\ Forget({}, {newRef})
    /\ newRef' = Null
    /\ UNCHANGED <<lookupStorage, newStorage, creating>>

-----------------------------------------------------------------------------
(* Removal *)

\* lookupStorage.erase(index, free)
EraseStorage(index, free) ==
    /\ ~ creating
    /\ index < lookupStorage.cnt
    /\ LET s == lookupStorage.ptr[index + 1]
           v == V!Erase(lookupStorage, index, free)
       IN  /\ lookupStorage' = v
           /\ Release(FreedByStorage(s)
                  \cup (Array(lookupStorage, "lookupStorage", Null)
                            \ Array(v, "lookupStorage", Null)))
           /\ Forget({s}, RefsOf(s))
    /\ UNCHANGED loader

\* lookupStorage.deinit()
DeinitStorage ==
    /\ ~ creating
    /\ LET gone == Range(V!Stored(lookupStorage))
       IN  /\ Release((UNION {FreedByStorage(s) : s \in gone})
                  \cup Array(lookupStorage, "lookupStorage", Null))
           /\ Forget(gone, UNION {RefsOf(s) : s \in gone})
    /\ lookupStorage' = V!Deinit(lookupStorage)
    /\ UNCHANGED loader

-----------------------------------------------------------------------------
(* Safety *)

\* Every block the structures and the loader still refer to.
Owned ==
    {Block("LookupStorage", s) : s \in Reachable}
        \cup {Block("Page", s) : s \in {t \in Reachable : page[t]}}
        \cup (UNION {Array(refs[s], "refs", s) : s \in Reachable})
        \cup {Block("PatchRef", r) : r \in ReachableRefs}
        \cup (UNION {Array(pageOffs[r], "pageOffs", r) : r \in ReachableRefs})
        \cup (UNION {Array(segOffs[r], "segOffs", r) : r \in ReachableRefs})
        \cup Array(lookupStorage, "lookupStorage", Null)

\* No object is in two places: in a vector, or with the loader.
OneOwner ==
    /\ IsInjective(V!Stored(lookupStorage))
    /\ newStorage \notin Range(V!Stored(lookupStorage))
    /\ \A s \in Reachable :
          /\ IsInjective(V!Stored(refs[s]))
          /\ newRef \notin RefsOf(s)
          /\ \A t \in Reachable \ {s} : RefsOf(s) \cap RefsOf(t) = {}

\* Whatever allocation fails, each object has one owner, and the memory that
\* is allocated is the memory some owner will free: nothing leaks, nothing
\* is freed twice, and nothing that is referred to has been freed.
OwnedOnce == ~ badFree /\ live = Owned /\ OneOwner

\* A vector never believes it has more slots than were allocated, whatever
\* the growth factors it was called with: no element is written outside.
SlotsAreReal ==
    \A v \in {lookupStorage} \cup Range([s \in Storages |-> refs[s]])
                \cup {pageOffs[r] : r \in PatchRefs} \cup {segOffs[r] : r \in PatchRefs} :
        v.cnt <= v.rsvd /\ v.rsvd = Len(v.ptr)

(* Refinement *)

Listed == V!Stored(lookupStorage)
Alive == {s \in Storages : Block("LookupStorage", s) \in live}

List == INSTANCE ElementList WITH Elements <- Storages, list <- Listed, alive <- Alive

\* The storages form a list in the order of their insertion: what erase()
\* destroys is what leaves the list, whatever failed, moved or was freed and
\* allocated again before.
ImplementsList == List!Spec
=============================================================================
