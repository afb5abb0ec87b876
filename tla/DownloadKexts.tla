---------------------------- MODULE DownloadKexts ----------------------------
(***************************************************************************)
(* download_kexts.sh: the script that fetches OpenCore and the kexts of    *)
(* this EFI folder from their latest releases, copies the files it needs   *)
(* into the folder, counts what went wrong and reports it.  Network,       *)
(* archive and disk may fail at every step, the script may be interrupted  *)
(* or killed, in its cleanup too, and the user may run it again on the     *)
(* folder it left behind.                                                  *)
(*                                                                         *)
(* curl, unzip, find and cp are external: each use of them has the         *)
(* outcomes that the script distinguishes.                                 *)
(***************************************************************************)
EXTENDS Integers, Sequences, FiniteSets

CONSTANTS
    Components,   \* per release, in order: the sequence of files to install
    Kexts,        \* those of them that are directories
    HfsPlus       \* the driver that is fetched without an archive

ReleaseFiles == UNION {{Components[c][k] : k \in DOMAIN Components[c]} : c \in DOMAIN Components}
Files == ReleaseFiles \cup {HfsPlus}

\* Every release holds a file, and no file comes from two places.
ASSUME DownloadKextsAssumption ==
    /\ Components \in Seq(Seq(ReleaseFiles) \ {<< >>})
    /\ \A c, d \in DOMAIN Components :
          \A j \in DOMAIN Components[c], k \in DOMAIN Components[d] :
             Components[c][j] = Components[d][k] => (c = d /\ j = k)
    /\ HfsPlus \notin ReleaseFiles
    /\ Kexts \subseteq ReleaseFiles

VARIABLES
    pc,           \* the part of the script that runs
    at,           \* the component it is at
    url,          \* the lines $(get_latest_release_url ...) has captured
    todo,         \* the files of the component that are still to be copied
    downloaded,   \* DOWNLOADED
    failed,       \* FAILED
    temp,         \* this run's TEMP_DIR exists
    disk,         \* disk[f]: what is at f's place in the folder, see Contents
    status        \* what the script has reported, or how it came to its end

counters == <<downloaded, failed>>
vars == <<pc, at, url, todo, counters, temp, disk, status>>

\* Nothing, an earlier run's file, a damaged one, this run's, or this run's
\* with the remains of an earlier one.
Contents == {"absent", "old", "broken", "fresh", "mixed"}

Init ==
    /\ pc = "start"
    /\ at = 1
    /\ url = << >>
    /\ todo = << >>
    /\ downloaded = 0 /\ failed = 0
    /\ temp = FALSE
    /\ disk \in [Files -> {"absent", "old"}]
    /\ status = "none"

-----------------------------------------------------------------------------
(* Control *)

\* On to the next component, or to HfsPlus.efi after the last.
NextComponent ==
    /\ IF at < Len(Components) THEN pc' = "query" /\ at' = at + 1
                               ELSE pc' = "hfs" /\ at' = 1
    /\ url' = << >>
    /\ todo' = << >>

Exit(how) ==
    /\ pc' = "exiting"
    /\ status' = how
    /\ at' = 1 /\ url' = << >> /\ todo' = << >>

\* A required command is missing, or a directory cannot be made (set -e).
CannotStart ==
    /\ pc = "start"
    /\ Exit("aborted")
    /\ temp' \in BOOLEAN
    /\ UNCHANGED <<counters, disk>>

CreateDirectories ==
    /\ pc = "start"
    /\ temp' = TRUE
    /\ pc' = IF Components = << >> THEN "hfs" ELSE "query"
    /\ UNCHANGED <<at, url, todo, counters, disk, status>>

-----------------------------------------------------------------------------
(* A component: query, download, extract, copy *)

\* The standard output of get_latest_release_url: log_info and log_err write to
\* it as well, and the substitution captures their lines with the address.
Captured(found) ==
    <<"info">> \o (IF found THEN <<"address">> ELSE <<"error">>)

\* X_URL=$(get_latest_release_url ...) || true; if [ -n "$X_URL" ]
Query ==
    /\ pc = "query"
    /\ \E found \in BOOLEAN :
          IF Captured(found) # << >>
          THEN pc' = "download" /\ url' = Captured(found) /\ UNCHANGED <<at, todo>>
          ELSE NextComponent
    /\ UNCHANGED <<counters, temp, disk, status>>

\* curl fails, or the file is empty, or unzip fails.
DownloadFails ==
    /\ pc = "download"
    /\ failed' = failed + 1
    /\ NextComponent
    /\ UNCHANGED <<downloaded, temp, disk, status>>

\* Variant: the wrong counter is incremented.
DownloadCountsFailure ==
    /\ pc = "download"
    /\ failed' = failed + 1
    /\ pc' = "copy"
    /\ todo' = Components[at]
    /\ UNCHANGED <<at, url, downloaded, temp, disk, status>>

\* curl and unzip report success.  (What curl makes of a URL with log lines in
\* it is curl's affair: both outcomes are possible for every url.)
Download ==
    /\ pc = "download"
    /\ downloaded' = downloaded + 1
    /\ pc' = "copy"
    /\ todo' = Components[at]
    /\ UNCHANGED <<at, url, failed, temp, disk, status>>

FileDone ==
    IF Len(todo) = 1
    THEN NextComponent
    ELSE todo' = Tail(todo) /\ UNCHANGED <<pc, at, url>>

\* cp replaces a file; cp -R copies into a kext that is there already.
Copied(f) == IF f \in Kexts /\ disk[f] # "absent" THEN "mixed" ELSE "fresh"

Copy ==
    /\ pc = "copy"
    /\ disk' = [disk EXCEPT ![Head(todo)] = Copied(Head(todo))]
    /\ FileDone
    /\ UNCHANGED <<counters, temp, status>>

\* Variant: a file that is missing from the archive is logged, not counted.
FileMissingUncounted ==
    /\ pc = "copy"
    /\ FileDone
    /\ UNCHANGED <<counters, temp, disk, status>>

\* find has printed nothing: the archive does not hold the file.
FileMissing ==
    /\ pc = "copy"
    /\ failed' = failed + 1
    /\ FileDone
    /\ UNCHANGED <<downloaded, temp, disk, status>>

\* cp fails at once or half-way, and set -e ends the script.
CopyFails ==
    /\ pc = "copy"
    /\ \E content \in {disk[Head(todo)], "broken"} :
          disk' = [disk EXCEPT ![Head(todo)] = content]
    /\ Exit("aborted")
    /\ UNCHANGED <<counters, temp>>

-----------------------------------------------------------------------------
(* HfsPlus.efi, which curl writes straight to its destination *)

\* curl succeeds and the file is not empty; without -f, curl also succeeds when
\* the server answers with an error page.
HfsPlusArrives ==
    /\ pc = "hfs"
    /\ \E content \in {"fresh", "broken"} : disk' = [disk EXCEPT ![HfsPlus] = content]
    /\ downloaded' = downloaded + 1
    /\ pc' = "summary"
    /\ UNCHANGED <<at, url, todo, failed, temp, status>>

\* No answer, or the transfer breaks off.
HfsPlusFails ==
    /\ pc = "hfs"
    /\ \E content \in {disk[HfsPlus], "broken"} : disk' = [disk EXCEPT ![HfsPlus] = content]
    /\ failed' = failed + 1
    /\ pc' = "summary"
    /\ UNCHANGED <<at, url, todo, downloaded, temp, status>>

-----------------------------------------------------------------------------
(* The end *)

Summary ==
    /\ pc = "summary"
    /\ Exit(IF failed > 0 THEN "failed" ELSE "success")
    /\ UNCHANGED <<counters, temp, disk>>

\* A file that is being written may be cut off.
CutOff ==
    \/ UNCHANGED disk
    \/ pc = "copy" /\ disk' = [disk EXCEPT ![Head(todo)] = "broken"]
    \/ pc = "hfs" /\ disk' = [disk EXCEPT ![HfsPlus] = "broken"]

\* SIGINT or SIGTERM: the EXIT trap runs.
Interrupt ==
    /\ pc \notin {"exiting", "exited"}
    /\ Exit("interrupted")
    /\ CutOff
    /\ UNCHANGED <<counters, temp>>

\* SIGKILL, or the machine stops: no trap runs.
Kill ==
    /\ pc \notin {"exiting", "exited"}
    /\ pc' = "exited"
    /\ status' = "killed"
    /\ at' = 1 /\ url' = << >> /\ todo' = << >>
    /\ CutOff
    /\ UNCHANGED <<counters, temp>>

\* trap cleanup EXIT
Cleanup ==
    /\ pc = "exiting"
    /\ temp' = FALSE
    /\ pc' = "exited"
    /\ UNCHANGED <<at, url, todo, counters, disk, status>>

\* rm fails, or another signal, which cleanup() does not mask, ends it.
CleanupFails ==
    /\ pc = "exiting"
    /\ pc' = "exited"
    /\ UNCHANGED <<at, url, todo, counters, temp, disk, status>>

\* The user runs the script again: its variables start anew, and TEMP_DIR, named
\* after the process, is another directory.
Rerun ==
    /\ pc = "exited"
    /\ pc' = "start"
    /\ downloaded' = 0 /\ failed' = 0
    /\ disk' = [f \in Files |-> IF disk[f] \in {"fresh", "mixed"} THEN "old" ELSE disk[f]]
    /\ status' = "none"
    /\ temp' = FALSE
    /\ UNCHANGED <<at, url, todo>>

Next ==
    \/ CannotStart
    \/ CreateDirectories
    \/ Query
    \/ DownloadFails
    \/ Download
    \/ Copy
    \/ FileMissing
    \/ CopyFails
    \/ HfsPlusArrives
    \/ HfsPlusFails
    \/ Summary
    \/ Interrupt
    \/ Kill
    \/ Cleanup
    \/ CleanupFails
    \/ Rerun

Spec == Init /\ [][Next]_vars

-----------------------------------------------------------------------------
(* Safety *)

Installed(f) == disk[f] \in {"fresh", "mixed"}

\* When the script reports success, every file that comes from a release was
\* installed by this very run: no failure on the way went uncounted.
SuccessMeansInstalled ==
    status = "success" => \A f \in ReleaseFiles : Installed(f)

\* When it reports that components failed, something is really missing.
FailureIsReal ==
    status = "failed" => \E f \in Files : ~ Installed(f)

\* "Skipping ... (could not resolve URL)": nothing is downloaded for a component
\* whose release has not been found.
SkipsUnresolved == pc = "download" => url[Len(url)] = "address"

(* Type invariant *)

TypeOK ==
    /\ pc \in {"start", "query", "download", "copy", "hfs", "summary", "exiting", "exited"}
    /\ pc \in {"query", "download", "copy"} => at \in DOMAIN Components
    /\ pc \in {"start", "exiting", "exited"} => at = 1
    /\ failed \in Nat
    /\ disk \in [Files -> Contents]
    /\ status \in {"none", "aborted", "interrupted", "killed", "failed", "success"}
=============================================================================
