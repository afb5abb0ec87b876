------------------------- MODULE DownloadKextsProofs -------------------------
(***************************************************************************)
(* download_kexts.sh, for any releases and any files in them: whatever     *)
(* fails, wherever the script is interrupted or killed and however often   *)
(* it is run again, its report of success or failure is true of the files  *)
(* that come from releases.                                                *)
(***************************************************************************)
EXTENDS DownloadKexts, TLAPS

(* The strengthening of the invariants *)

InRun == pc \notin {"exiting", "exited"}

\* The files still to be copied are the last ones of the component.
Offset == Len(Components[at]) - Len(todo)

TodoIsRest ==
    pc = "copy" =>
        /\ todo \in Seq(ReleaseFiles) \ {<< >>}
        /\ Offset \in Nat
        /\ \A i \in DOMAIN todo : todo[i] = Components[at][Offset + i]

\* This run has not come to file k of component c yet.
Ahead(c, k) ==
    \/ pc = "start"
    \/ pc \in {"query", "download"} /\ c >= at
    \/ pc = "copy" /\ (c > at \/ (c = at /\ k > Offset))

\* Nothing of this run lies at a file that is ahead; behind, every file is
\* installed unless a failure was counted, and for a failure one is missing.
Accounted ==
    InRun =>
        /\ \A c \in DOMAIN Components : \A k \in DOMAIN Components[c] :
              /\ Ahead(c, k) => ~ Installed(Components[c][k])
              /\ (~ Ahead(c, k) /\ failed = 0) => Installed(Components[c][k])
        /\ pc = "start" => failed = 0
        /\ pc # "summary" => ~ Installed(HfsPlus)
        /\ failed > 0 =>
              \/ \E c \in DOMAIN Components : \E k \in DOMAIN Components[c] :
                    ~ Ahead(c, k) /\ ~ Installed(Components[c][k])
              \/ pc = "summary" /\ ~ Installed(HfsPlus)

StatusIsLast == status # "none" => ~ InRun

-----------------------------------------------------------------------------
(* Positions *)

\* A release's files are files of the folder, none of them HfsPlus.efi.
LEMMA PositionType ==
    ASSUME NEW c \in DOMAIN Components
    PROVE  /\ c \in Nat /\ c >= 1 /\ c <= Len(Components) /\ Len(Components) \in Nat
           /\ Components[c] \in Seq(ReleaseFiles) /\ Len(Components[c]) \in Nat \ {0}
           /\ DOMAIN Components[c] = 1 .. Len(Components[c])
           /\ \A k \in DOMAIN Components[c] :
                 Components[c][k] \in ReleaseFiles /\ Components[c][k] # HfsPlus
<1> USE DownloadKextsAssumption
<1>1. Components \in Seq(Seq(ReleaseFiles) \ {<< >>})
  OBVIOUS
<1>2. Components[c] \in Seq(ReleaseFiles) \ {<< >>}
  BY <1>1
<1>3. /\ c \in Nat /\ c >= 1 /\ c <= Len(Components) /\ Len(Components) \in Nat
      /\ Len(Components[c]) \in Nat \ {0}
      /\ DOMAIN Components[c] = 1 .. Len(Components[c])
  BY <1>1, <1>2
<1> QED
  BY <1>2, <1>3

\* Every file that comes from a release has a position, and only one.
LEMMA PositionsCover ==
    /\ \A f \in ReleaseFiles : \E c \in DOMAIN Components : \E k \in DOMAIN Components[c] :
          f = Components[c][k]
    /\ \A c, d \in DOMAIN Components : \A j \in DOMAIN Components[c], k \in DOMAIN Components[d] :
          Components[c][j] = Components[d][k] => (c = d /\ j = k)
BY DownloadKextsAssumption DEF ReleaseFiles

Positioned == TypeOK /\ TodoIsRest

\* The file that copy_kext is called for is the next one of the component.
LEMMA HeadIsNext ==
    ASSUME Positioned, pc = "copy"
    PROVE  /\ at \in DOMAIN Components /\ Offset \in Nat /\ Len(todo) \in Nat \ {0}
           /\ Offset + 1 \in DOMAIN Components[at]
           /\ Offset + Len(todo) = Len(Components[at])
           /\ Head(todo) = Components[at][Offset + 1]
           /\ Head(todo) \in ReleaseFiles
<1>1. /\ at \in DOMAIN Components /\ Offset \in Nat /\ todo \in Seq(ReleaseFiles) \ {<< >>}
      /\ \A i \in DOMAIN todo : todo[i] = Components[at][Offset + i]
  BY DEF Positioned, TypeOK, TodoIsRest
<1>2. Len(Components[at]) \in Nat /\ DOMAIN Components[at] = 1 .. Len(Components[at])
  BY <1>1, PositionType
<1>3. Len(todo) \in Nat \ {0} /\ 1 \in DOMAIN todo /\ Head(todo) = todo[1] /\ todo[1] \in ReleaseFiles
  BY <1>1
<1>4. Offset + Len(todo) = Len(Components[at])
  BY <1>1, <1>2, <1>3 DEF Offset
<1>5. Offset + 1 \in DOMAIN Components[at]
  BY <1>1, <1>2, <1>3, <1>4
<1> QED
  BY <1>1, <1>3, <1>4, <1>5

\* After a component, whatever became of it, the later ones are ahead.
LEMMA NextComponentMoves ==
    ASSUME TypeOK, pc \in {"download", "copy"}, NextComponent
    PROVE  /\ pc' \in {"query", "hfs"} /\ (pc' = "query" => at' \in DOMAIN Components)
           /\ \A c \in DOMAIN Components : \A k : Ahead(c, k)' <=> c > at
<1>1. at \in DOMAIN Components /\ DOMAIN Components = 1 .. Len(Components) /\ Len(Components) \in Nat
  BY DownloadKextsAssumption DEF TypeOK
<1>2. CASE at < Len(Components)
  BY <1>1, <1>2 DEF NextComponent, Ahead
<1>3. CASE ~ (at < Len(Components))
  BY <1>1, <1>3 DEF NextComponent, Ahead
<1> QED
  BY <1>2, <1>3

\* What is left of a sequence of two or more without its first.
LEMMA TailOf ==
    ASSUME NEW S, NEW s \in Seq(S), Len(s) > 1
    PROVE  /\ Tail(s) \in Seq(S) /\ Len(Tail(s)) = Len(s) - 1 /\ Tail(s) # << >>
           /\ DOMAIN Tail(s) = 1 .. (Len(s) - 1) /\ DOMAIN s = 1 .. Len(s)
           /\ \A i \in 1 .. (Len(s) - 1) : Tail(s)[i] = s[i + 1]
<1>1. Len(s) \in Nat /\ Len(s) > 1
  OBVIOUS
<1>2. Tail(s) \in Seq(S) /\ Len(Tail(s)) = Len(s) - 1
  BY <1>1
<1>3. \A i \in 1 .. (Len(s) - 1) : Tail(s)[i] = s[i + 1]
  BY <1>1
<1>4. Tail(s) # << >>
  <2>1. Len(<< >>) = 0 /\ Len(Tail(s)) # 0
    BY <1>1, <1>2
  <2> QED
    BY <2>1, Zenon
<1>5. DOMAIN Tail(s) = 1 .. (Len(s) - 1)
  BY <1>2
<1>6. DOMAIN s = 1 .. Len(s)
  OBVIOUS
<1> QED
  BY <1>2, <1>3, <1>4, <1>5, <1>6

\* When a file is done, it alone is no longer ahead.
LEMMA FileDoneMoves ==
    ASSUME Positioned, pc = "copy", FileDone
    PROVE  /\ pc' \in {"query", "hfs", "copy"}
           /\ (pc' # "hfs" => at' \in DOMAIN Components)
           /\ TodoIsRest'
           /\ \A c \in DOMAIN Components : \A k \in DOMAIN Components[c] :
                 Ahead(c, k)' <=> (Ahead(c, k) /\ ~ (c = at /\ k = Offset + 1))
<1>1. /\ at \in DOMAIN Components /\ Offset \in Nat /\ Len(todo) \in Nat \ {0}
      /\ Offset + Len(todo) = Len(Components[at])
  BY HeadIsNext
<1>2. \A c \in DOMAIN Components : c \in Nat /\ DOMAIN Components[c] = 1 .. Len(Components[c])
                                     /\ Len(Components[c]) \in Nat
  BY PositionType
<1>3. CASE Len(todo) = 1
  <2>1. NextComponent
    BY <1>3 DEF FileDone
  <2>2. /\ pc' \in {"query", "hfs"} /\ (pc' = "query" => at' \in DOMAIN Components)
        /\ \A c \in DOMAIN Components : \A k : Ahead(c, k)' <=> c > at
    BY <2>1, NextComponentMoves DEF Positioned
  <2>3. \A c \in DOMAIN Components : \A k \in DOMAIN Components[c] :
           c > at <=> (Ahead(c, k) /\ ~ (c = at /\ k = Offset + 1))
    BY <1>1, <1>2, <1>3 DEF Ahead
  <2> QED
    BY <2>2, <2>3 DEF TodoIsRest
<1>4. CASE Len(todo) # 1
  <2>1. todo' = Tail(todo) /\ pc' = "copy" /\ at' = at
    BY <1>4 DEF FileDone
  <2>2. /\ todo \in Seq(ReleaseFiles) \ {<< >>}
        /\ \A i \in DOMAIN todo : todo[i] = Components[at][Offset + i]
    BY DEF Positioned, TodoIsRest
  <2>3. /\ todo' \in Seq(ReleaseFiles) /\ Len(todo') = Len(todo) - 1 /\ todo' # << >>
        /\ \A i \in DOMAIN todo' : i \in Nat /\ i + 1 \in DOMAIN todo /\ todo'[i] = todo[i + 1]
    <3>0. Len(todo) > 1
      <4>1. \A n \in Nat \ {0} : n # 1 => n > 1
        OBVIOUS
      <4> QED
        BY <1>1, <1>4, <4>1, Zenon
    <3>1. /\ todo' = Tail(todo) /\ todo \in Seq(ReleaseFiles) /\ Len(todo) > 1
      BY <2>1, <2>2, <3>0
    <3>2. /\ todo' \in Seq(ReleaseFiles) /\ Len(todo') = Len(todo) - 1 /\ todo' # << >>
          /\ DOMAIN todo' = 1 .. (Len(todo) - 1) /\ DOMAIN todo = 1 .. Len(todo)
          /\ \A i \in 1 .. (Len(todo) - 1) : todo'[i] = todo[i + 1]
      BY <3>1, TailOf
    <3> QED
      BY <1>1, <3>2
  <2>4. Offset' = Offset + 1
    BY <1>1, <1>2, <2>1, <2>3 DEF Offset
  <2>5. \A i \in DOMAIN todo' : todo'[i] = Components[at][Offset' + i]
    <3> SUFFICES ASSUME NEW i \in DOMAIN todo' PROVE todo'[i] = Components[at][Offset' + i]
      OBVIOUS
    <3>1. todo'[i] = Components[at][Offset + (i + 1)] /\ i \in Nat
      BY <2>2, <2>3
    <3>2. Offset + (i + 1) = Offset' + i
      BY <1>1, <2>4, <3>1
    <3> QED
      BY <3>1, <3>2
  <2>6. TodoIsRest'
    BY <1>1, <2>1, <2>3, <2>4, <2>5 DEF TodoIsRest
  <2>7. \A c \in DOMAIN Components : \A k \in DOMAIN Components[c] :
           Ahead(c, k)' <=> (Ahead(c, k) /\ ~ (c = at /\ k = Offset + 1))
    BY <1>1, <1>2, <2>1, <2>4 DEF Ahead
  <2> QED
    BY <1>1, <2>1, <2>6, <2>7
<1> QED
  BY <1>3, <1>4

\* When the archive of a component is there, all of its files are ahead still.
LEMMA DownloadMoves ==
    ASSUME TypeOK, Download
    PROVE  /\ TodoIsRest'
           /\ \A c \in DOMAIN Components : \A k \in DOMAIN Components[c] :
                 Ahead(c, k)' <=> Ahead(c, k)
<1>1. at \in DOMAIN Components /\ pc = "download" /\ pc' = "copy" /\ at' = at /\ todo' = Components[at]
  BY DEF TypeOK, Download
<1>2. Components[at] \in Seq(ReleaseFiles) /\ Len(Components[at]) \in Nat \ {0}
  BY <1>1, PositionType
<1>3. Offset' = 0
  BY <1>1, <1>2 DEF Offset
<1>4. \A c \in DOMAIN Components : c \in Nat /\ \A k \in DOMAIN Components[c] : k \in Nat /\ k > 0
  BY PositionType
<1>5. TodoIsRest'
  BY <1>1, <1>2, <1>3 DEF TodoIsRest
<1> QED
  BY <1>1, <1>3, <1>4, <1>5 DEF Ahead
-----------------------------------------------------------------------------
(* Every step keeps the types and the position *)

\* Each step of the script leaves it at a position of the list.
LEMMA PositionedKept ==
    ASSUME Positioned, [Next]_vars
    PROVE  Positioned'
<1> USE DEF Contents
<1>1. TypeOK
  BY DEF Positioned
<1>2. \A f : Copied(f) \in Contents
  BY DEF Copied
<1>3. DOMAIN Components = 1 .. Len(Components) /\ Len(Components) \in Nat
  BY DownloadKextsAssumption
<1>4. pc = "copy" => Head(todo) \in Files
  BY HeadIsNext DEF Positioned, Files
<1>5. ASSUME pc' # "copy" PROVE TodoIsRest'
  BY <1>5 DEF TodoIsRest
<1>6. CASE CannotStart
  BY <1>1, <1>5, <1>6 DEF CannotStart, Exit, TypeOK, Positioned, counters
<1>7. CASE CreateDirectories
  <2>1. Components # << >> => 1 \in DOMAIN Components
    BY DownloadKextsAssumption
  <2> QED
    BY <1>1, <1>5, <1>7, <2>1 DEF CreateDirectories, TypeOK, Positioned, counters
<1>8. CASE Query
  <2>1. \A found \in BOOLEAN : Captured(found) # << >>
    BY DEF Captured
  <2>2. pc' = "download" /\ at' = at /\ pc = "query" /\ UNCHANGED <<counters, temp, disk, status>>
    BY <1>8, <2>1 DEF Query
  <2> QED
    BY <1>1, <1>5, <2>2 DEF TypeOK, Positioned, counters
<1>9. CASE DownloadFails
  <2>1. /\ pc' \in {"query", "hfs"} /\ (pc' = "query" => at' \in DOMAIN Components)
        /\ failed' = failed + 1 /\ disk' = disk /\ status' = status
    BY <1>1, <1>9, NextComponentMoves DEF DownloadFails
  <2> QED
    BY <1>1, <1>5, <2>1 DEF TypeOK, Positioned
<1>10. CASE Download
  <2>1. TodoIsRest'
    BY <1>1, <1>10, DownloadMoves
  <2> QED
    BY <1>1, <1>10, <2>1 DEF Download, TypeOK, Positioned
<1>11. CASE Copy \/ FileMissing
  <2>1. FileDone /\ pc = "copy"
    BY <1>11 DEF Copy, FileMissing
  <2>2. /\ pc' \in {"query", "hfs", "copy"} /\ (pc' # "hfs" => at' \in DOMAIN Components)
        /\ TodoIsRest'
    BY <2>1, FileDoneMoves
  <2>3. disk' \in [Files -> Contents] /\ failed' \in Nat /\ status' = status
    BY <1>1, <1>2, <1>11 DEF Copy, FileMissing, TypeOK, counters
  <2> QED
    BY <1>1, <2>2, <2>3 DEF TypeOK, Positioned
<1>12. CASE CopyFails
  BY <1>1, <1>4, <1>5, <1>12 DEF CopyFails, Exit, TypeOK, Positioned, counters
<1>13. CASE HfsPlusArrives
  BY <1>1, <1>5, <1>13 DEF HfsPlusArrives, TypeOK, Positioned
<1>14. CASE HfsPlusFails
  BY <1>1, <1>5, <1>14 DEF HfsPlusFails, TypeOK, Positioned, Files
<1>15. CASE Summary
  BY <1>1, <1>5, <1>15 DEF Summary, Exit, TypeOK, Positioned, counters
<1>16. CASE Interrupt
  BY <1>1, <1>5, <1>16 DEF Interrupt, Exit, CutOff, TypeOK, Positioned, counters
<1>17. CASE Cleanup
  BY <1>1, <1>5, <1>17 DEF Cleanup, TypeOK, Positioned, counters
<1>18. CASE Rerun
  BY <1>1, <1>5, <1>18 DEF Rerun, TypeOK, Positioned
<1>19. CASE Kill
  BY <1>1, <1>5, <1>19 DEF Kill, CutOff, TypeOK, Positioned, counters
<1>20. CASE CleanupFails
  BY <1>1, <1>5, <1>20 DEF CleanupFails, TypeOK, Positioned, counters
<1>21. CASE UNCHANGED vars
  BY <1>21 DEF vars, counters, TypeOK, Positioned, TodoIsRest, Offset
<1> QED
  BY <1>6, <1>7, <1>8, <1>9, <1>10, <1>11, <1>12, <1>13, <1>14, <1>15, <1>16, <1>17, <1>18, <1>19,
     <1>20, <1>21
     DEF Next

\* The position in the list of releases and files is one that the script has: the
\* files it has still to copy are the last ones of the component it is at.
THEOREM PositionIsReal == Spec => []Positioned
<1>1. Init => Positioned
  BY DEF Init, Positioned, TypeOK, TodoIsRest, Contents
<1>2. Positioned /\ [Next]_vars => Positioned'
  BY PositionedKept
<1> QED
  BY <1>1, <1>2, PTL DEF Spec

-----------------------------------------------------------------------------
(* Every file is accounted for *)

\* A part of the script that writes no file and counts nothing, and leaves the same
\* files ahead.
LEMMA NothingHappens ==
    ASSUME Accounted, InRun, disk' = disk, failed' = failed,
           pc' \notin {"start", "summary"}, pc # "summary",
           \A c \in DOMAIN Components : \A k \in DOMAIN Components[c] :
               Ahead(c, k)' <=> Ahead(c, k)
    PROVE  Accounted'
BY DEF Accounted, Installed

\* A component that is not downloaded is counted, and its first file is missing.
LEMMA DownloadFailsAccounted ==
    ASSUME Positioned, Accounted, DownloadFails
    PROVE  Accounted'
<1>1. /\ pc = "download" /\ at \in DOMAIN Components /\ failed' = failed + 1 /\ failed \in Nat
      /\ disk' = disk
  BY DEF Positioned, TypeOK, DownloadFails
<1>2. pc' \in {"query", "hfs"} /\ \A c \in DOMAIN Components : \A k : Ahead(c, k)' <=> c > at
  BY NextComponentMoves DEF Positioned, DownloadFails
<1>3. \A c \in DOMAIN Components : \A k : Ahead(c, k) <=> c >= at
  BY <1>1 DEF Ahead
<1>4. \A c \in DOMAIN Components : c \in Nat /\ 1 \in DOMAIN Components[c]
  BY PositionType
<1>5. /\ \A c \in DOMAIN Components : \A k \in DOMAIN Components[c] :
            Ahead(c, k) => ~ Installed(Components[c][k])
      /\ ~ Installed(HfsPlus)
  BY <1>1 DEF Accounted, InRun
<1>6. \A f : Installed(f)' <=> Installed(f)
  BY <1>1 DEF Installed
<1>7. PICK here \in DOMAIN Components : here = at
  BY <1>1
<1>7a. /\ 1 \in DOMAIN Components[here]
       /\ ~ Ahead(here, 1)' /\ ~ Installed(Components[here][1])'
  BY <1>2, <1>3, <1>4, <1>5, <1>6, <1>7
<1>8. \A c \in DOMAIN Components : \A k \in DOMAIN Components[c] :
         Ahead(c, k)' => ~ Installed(Components[c][k])'
  BY <1>1, <1>2, <1>3, <1>4, <1>5, <1>6
<1>9. failed' # 0 /\ pc' # "start"
  BY <1>1, <1>2
<1> QED
  BY <1>1, <1>5, <1>6, <1>7a, <1>8, <1>9 DEF Accounted

\* A file that is copied is behind and installed; one that the archive lacks is
\* behind, missing and counted.
LEMMA FileAccounted ==
    ASSUME Positioned, Accounted, Copy \/ FileMissing
    PROVE  Accounted'
<1>1. pc = "copy" /\ FileDone
  BY DEF Copy, FileMissing
<1>2. PICK a \in DOMAIN Components, next \in Nat, head \in ReleaseFiles :
          /\ a = at /\ next = Offset + 1 /\ head = Head(todo)
          /\ next \in DOMAIN Components[a] /\ head = Components[a][next]
  BY <1>1, HeadIsNext
<1>3. /\ pc' \in {"query", "hfs", "copy"}
      /\ \A c \in DOMAIN Components : \A k \in DOMAIN Components[c] :
            Ahead(c, k)' <=> (Ahead(c, k) /\ ~ (c = a /\ k = next))
  BY <1>1, <1>2, FileDoneMoves
<1>4. \A c \in DOMAIN Components : \A k \in DOMAIN Components[c] :
         /\ Components[c][k] = head <=> (c = a /\ k = next)
         /\ Components[c][k] \in ReleaseFiles
  <2> SUFFICES ASSUME NEW c \in DOMAIN Components, NEW k \in DOMAIN Components[c]
               PROVE  /\ Components[c][k] = head <=> (c = a /\ k = next)
                      /\ Components[c][k] \in ReleaseFiles
    OBVIOUS
  <2>1. Components[c][k] = Components[a][next] => (c = a /\ k = next)
    BY <1>2, PositionsCover
  <2>2. Components[c][k] \in ReleaseFiles
    BY PositionType
  <2> QED
    BY <1>2, <2>1, <2>2
<1>5. HfsPlus # head
  BY <1>2, DownloadKextsAssumption
<1>6. Ahead(a, next)
  <2>1. a \in Nat
    BY PositionType
  <2>2. Ahead(at, Offset + 1)
    <3>1. at \in Nat /\ Offset \in Nat
      BY <1>1, <1>2, <2>1, HeadIsNext
    <3>2. Offset + 1 > Offset
      BY <3>1
    <3> QED
      BY <1>1, <3>2 DEF Ahead
  <2> QED
    BY <1>2, <2>2
<1>7. /\ \A c \in DOMAIN Components : \A k \in DOMAIN Components[c] :
            /\ Ahead(c, k) => ~ Installed(Components[c][k])
            /\ (~ Ahead(c, k) /\ failed = 0) => Installed(Components[c][k])
      /\ ~ Installed(HfsPlus)
      /\ failed > 0 => \E c \in DOMAIN Components : \E k \in DOMAIN Components[c] :
            ~ Ahead(c, k) /\ ~ Installed(Components[c][k])
  BY <1>1 DEF Accounted, InRun
<1>8. CASE Copy
  <2>1. disk' = [disk EXCEPT ![head] = Copied(head)] /\ failed' = failed /\ disk \in [Files -> Contents]
    BY <1>2, <1>8 DEF Copy, Positioned, TypeOK, counters
  <2>2. \A f \in Files : f # head => (Installed(f)' <=> Installed(f))
    BY <2>1 DEF Installed
  <2>3. Installed(head)'
    BY <1>2, <2>1 DEF Installed, Copied, Files
  <2>4. \A c \in DOMAIN Components : \A k \in DOMAIN Components[c] :
           (c = a /\ k = next) \/ (Installed(Components[c][k])' <=> Installed(Components[c][k]))
    BY <1>4, <2>2 DEF Files
  <2>5. ~ Installed(HfsPlus)'
    BY <1>5, <1>7, <2>2 DEF Files
  <2>6. \A c \in DOMAIN Components : \A k \in DOMAIN Components[c] :
           /\ Ahead(c, k)' => ~ Installed(Components[c][k])'
           /\ (~ Ahead(c, k)' /\ failed' = 0) => Installed(Components[c][k])'
    BY <1>2, <1>3, <1>7, <2>1, <2>3, <2>4
  <2>7. failed' > 0 => \E c \in DOMAIN Components : \E k \in DOMAIN Components[c] :
           ~ Ahead(c, k)' /\ ~ Installed(Components[c][k])'
    BY <1>3, <1>6, <1>7, <2>1, <2>4
  <2> QED
    BY <1>3, <2>5, <2>6, <2>7 DEF Accounted
<1>9. CASE FileMissing
  <2>1. disk' = disk /\ failed' = failed + 1 /\ failed \in Nat
    BY <1>9 DEF FileMissing, Positioned, TypeOK
  <2>2. \A f : Installed(f)' <=> Installed(f)
    BY <2>1 DEF Installed
  <2>3. ~ Ahead(a, next)' /\ ~ Installed(Components[a][next])'
    BY <1>2, <1>3, <1>6, <1>7, <2>2
  <2>4. \A c \in DOMAIN Components : \A k \in DOMAIN Components[c] :
           Ahead(c, k)' => ~ Installed(Components[c][k])'
    BY <1>3, <1>7, <2>2
  <2>5. failed' # 0 /\ pc' # "start" /\ ~ Installed(HfsPlus)'
    BY <1>3, <1>7, <2>1, <2>2
  <2> QED
    BY <1>2, <2>3, <2>4, <2>5 DEF Accounted
<1> QED
  BY <1>8, <1>9

\* HfsPlus.efi comes last and is no file of a release.
LEMMA HfsPlusAccounted ==
    ASSUME Positioned, Accounted, HfsPlusArrives \/ HfsPlusFails
    PROVE  Accounted'
<1>1. pc = "hfs" /\ pc' = "summary" /\ disk \in [Files -> Contents]
  BY DEF HfsPlusArrives, HfsPlusFails, Positioned, TypeOK
<1>2. \A c, k : ~ Ahead(c, k) /\ ~ Ahead(c, k)'
  BY <1>1 DEF Ahead
<1>3. \A c \in DOMAIN Components : \A k \in DOMAIN Components[c] :
         Components[c][k] # HfsPlus /\ Components[c][k] \in Files
  BY PositionType DEF Files
<1>4. \E content : disk' = [disk EXCEPT ![HfsPlus] = content]
  BY DEF HfsPlusArrives, HfsPlusFails
<1>5. \A c \in DOMAIN Components : \A k \in DOMAIN Components[c] :
         Installed(Components[c][k])' <=> Installed(Components[c][k])
  BY <1>1, <1>3, <1>4 DEF Installed
<1>6. /\ failed = 0 => \A c \in DOMAIN Components : \A k \in DOMAIN Components[c] :
                           Installed(Components[c][k])
      /\ ~ Installed(HfsPlus)
      /\ failed > 0 => \E c \in DOMAIN Components : \E k \in DOMAIN Components[c] :
            ~ Installed(Components[c][k])
  BY <1>1, <1>2 DEF Accounted, InRun
<1>7. failed' > 0 => \/ \E c \in DOMAIN Components : \E k \in DOMAIN Components[c] :
                           ~ Installed(Components[c][k])'
                     \/ ~ Installed(HfsPlus)'
  <2>1. CASE HfsPlusArrives
    BY <1>5, <1>6, <2>1 DEF HfsPlusArrives
  <2>2. CASE HfsPlusFails
    BY <1>1, <1>6, <2>2 DEF HfsPlusFails, Installed, Files
  <2> QED
    BY <2>1, <2>2
<1>8. failed' = 0 => failed = 0
  BY DEF HfsPlusArrives, HfsPlusFails, Positioned, TypeOK
<1> QED
  BY <1>1, <1>2, <1>5, <1>6, <1>7, <1>8 DEF Accounted

\* Nothing that this run installs is there when it starts.
LEMMA StartAccounted ==
    ASSUME pc = "start", failed = 0, \A f \in Files : ~ Installed(f)
    PROVE  Accounted
BY PositionType DEF Accounted, Ahead, Files

\* Each step of the script accounts for what it does, or ends the run.
LEMMA AccountedKept ==
    ASSUME Positioned, Accounted, [Next]_vars
    PROVE  Accounted'
<1>1. ASSUME ~ InRun' PROVE Accounted'
  BY <1>1 DEF Accounted
<1>2. CASE CannotStart \/ CopyFails \/ Summary \/ Interrupt \/ Kill \/ Cleanup \/ CleanupFails
  BY <1>1, <1>2
     DEF CannotStart, CopyFails, Summary, Interrupt, Kill, Cleanup, CleanupFails, Exit, InRun
<1>3. CASE CreateDirectories
  <2>1. /\ pc = "start" /\ at = 1 /\ at' = 1 /\ disk' = disk /\ failed' = failed
        /\ pc' = IF Components = << >> THEN "hfs" ELSE "query"
    BY <1>3 DEF CreateDirectories, Positioned, TypeOK, counters
  <2>2. \A c \in DOMAIN Components : \A k : Ahead(c, k) /\ Ahead(c, k)'
    <3>1. \A c \in DOMAIN Components : c >= 1 /\ Components # << >>
      BY PositionType
    <3> QED
      BY <2>1, <3>1 DEF Ahead
  <2> QED
    BY <2>1, <2>2, NothingHappens DEF InRun
<1>4. CASE Query
  <2>1. \A found \in BOOLEAN : Captured(found) # << >>
    BY DEF Captured
  <2>2. /\ pc' = "download" /\ pc = "query" /\ at' = at
        /\ disk' = disk /\ failed' = failed
    BY <1>4, <2>1 DEF Query, counters
  <2>3. \A c, k : Ahead(c, k)' <=> Ahead(c, k)
    BY <2>2 DEF Ahead
  <2> QED
    BY <2>2, <2>3, NothingHappens DEF InRun
<1>5. CASE Download
  BY <1>5, DownloadMoves, NothingHappens DEF Download, InRun, Positioned
<1>6. CASE DownloadFails
  BY <1>6, DownloadFailsAccounted
<1>7. CASE Copy \/ FileMissing
  BY <1>7, FileAccounted
<1>8. CASE HfsPlusArrives \/ HfsPlusFails
  BY <1>8, HfsPlusAccounted
<1>9. CASE Rerun
  <2>1. /\ pc' = "start" /\ failed' = 0
        /\ disk' = [f \in Files |-> IF disk[f] \in {"fresh", "mixed"} THEN "old" ELSE disk[f]]
    BY <1>9 DEF Rerun
  <2>2. \A f \in Files : ~ Installed(f)'
    BY <2>1 DEF Installed
  <2> QED
    BY <2>1, <2>2, PositionType DEF Accounted, Ahead, Files
<1>10. CASE UNCHANGED vars
  BY <1>10 DEF vars, counters, Accounted, InRun, Ahead, Offset, Installed
<1> QED
  BY <1>2, <1>3, <1>4, <1>5, <1>6, <1>7, <1>8, <1>9, <1>10 DEF Next

\* The report is made at the end, of what has been accounted for.
ReportIsTrue == StatusIsLast /\ SuccessMeansInstalled /\ FailureIsReal

\* Only the summary reports, and nothing touches the files after it.
LEMMA ReportKept ==
    ASSUME Positioned, Accounted, ReportIsTrue, [Next]_vars
    PROVE  ReportIsTrue'
<1> USE DEF ReportIsTrue, StatusIsLast, SuccessMeansInstalled, FailureIsReal
<1>1. CASE Summary
  <2>1. /\ pc = "summary" /\ ~ InRun' /\ disk' = disk /\ failed \in Nat
        /\ status' = IF failed > 0 THEN "failed" ELSE "success"
    BY <1>1 DEF Summary, Exit, InRun, Positioned, TypeOK, counters
  <2>2. \A f : Installed(f)' <=> Installed(f)
    BY <2>1 DEF Installed
  <2>3. failed = 0 => \A f \in ReleaseFiles : Installed(f)
    BY <2>1, PositionsCover DEF Accounted, InRun, Ahead
  <2>4. failed > 0 => \E f \in Files : ~ Installed(f)
    BY <2>1, PositionType DEF Accounted, InRun, Files
  <2>5. failed > 0 \/ failed = 0
    BY <2>1
  <2> QED
    BY <2>1, <2>2, <2>3, <2>4, <2>5
<1>2. CASE CannotStart \/ CopyFails \/ Interrupt \/ Kill
  BY <1>2 DEF CannotStart, CopyFails, Interrupt, Kill, Exit, InRun
<1>3. CASE Cleanup \/ CleanupFails
  BY <1>3 DEF Cleanup, CleanupFails, InRun, Installed
<1>4. CASE Rerun
  BY <1>4 DEF Rerun
<1>5. ASSUME InRun, status' = status PROVE ReportIsTrue'
  BY <1>5
<1>6. CASE CreateDirectories \/ Query \/ DownloadFails \/ Download
  BY <1>5, <1>6 DEF CreateDirectories, Query, DownloadFails, Download, InRun
<1>7. CASE Copy \/ FileMissing \/ HfsPlusArrives \/ HfsPlusFails
  BY <1>5, <1>7 DEF Copy, FileMissing, HfsPlusArrives, HfsPlusFails, InRun
<1>8. CASE UNCHANGED vars
  BY <1>8 DEF vars, InRun, Installed
<1> QED
  BY <1>1, <1>2, <1>3, <1>4, <1>6, <1>7, <1>8 DEF Next

\* Whatever failed on the way, the script is at a place of its list, has counted what
\* is missing so far, and reports only in the end.
LEMMA ReportAlwaysTrue == Spec => []ReportIsTrue
<1>1. Init => Accounted /\ ReportIsTrue
  <2> SUFFICES ASSUME Init PROVE Accounted /\ ReportIsTrue
    OBVIOUS
  <2>1. \A f \in Files : ~ Installed(f)
    BY DEF Init, Installed
  <2>2. Accounted
    BY <2>1, StartAccounted DEF Init
  <2> QED
    BY <2>2 DEF Init, ReportIsTrue, StatusIsLast, SuccessMeansInstalled, FailureIsReal
<1>2. Positioned /\ Accounted /\ ReportIsTrue /\ [Next]_vars => Accounted' /\ ReportIsTrue'
  BY AccountedKept, ReportKept
<1> QED
  BY <1>1, <1>2, PositionIsReal, PTL DEF Spec

\* When the script reports success, this very run has installed every file that
\* comes from a release: no failure on the way went uncounted.
THEOREM SuccessIsTrue == Spec => []SuccessMeansInstalled
<1>1. ReportIsTrue => SuccessMeansInstalled
  BY DEF ReportIsTrue
<1> QED
  BY <1>1, ReportAlwaysTrue, PTL

\* When the script reports failed components, a file of the folder is not one of this
\* run's: no failure is counted for what it installs in the end.
THEOREM FailureIsTrue == Spec => []FailureIsReal
<1>1. ReportIsTrue => FailureIsReal
  BY DEF ReportIsTrue
<1> QED
  BY <1>1, ReportAlwaysTrue, PTL

=============================================================================
