------------------------------ MODULE CorpusFetch ------------------------------
(***************************************************************************)
(* The corpus generator (mos6502/gen.go), run by `go generate`: it wipes   *)
(* the corpus directory, fetches the tip of the upstream branch with git,  *)
(* verifies that the tip is the pinned commit, and writes the marker file  *)
(* that later runs go by.  Any of its steps may fail, half done, and the   *)
(* process may be killed between or during any of them.                    *)
(*                                                                         *)
(* Commits stand for SHAs and `files` for the number of *.json files.      *)
(***************************************************************************)
EXTENDS Naturals

CONSTANTS
    Commits,    \* commits of the upstream branch
    AllFiles,   \* corpus files in a commit (256)
    MinFiles,   \* files alreadyFetched asks for (200)
    MaxFaults   \* bound: failures, kills and changes of the outside world

ASSUME CorpusAssumption ==
    /\ Commits # {} /\ {"none", "partial"} \cap Commits = {}
    /\ AllFiles \in Nat /\ MinFiles \in 1..AllFiles /\ MaxFaults \in Nat

VARIABLES
    pc,         \* the next step of main, "idle" between runs
    pinned,     \* pinnedCorpusSHA
    upstream,   \* the tip of the upstream branch
    marker,     \* .fetched-sha: a commit, "none" (no such file) or "partial"
    remote,    \* the remote in .git/config: "origin" or "none"
    fetched,    \* FETCH_HEAD
    commit,     \* the commit the files on disk come from; HEAD, after a checkout
    files,      \* *.json files under 6502/v1
    exit,       \* how the last run ended: "ok" (0), "fail" (1 or killed), or
                \* "preflight" (1 or killed, before RemoveAll)
    faults      \* failures so far

vars == <<pc, pinned, upstream, marker, remote, fetched, commit, files, exit, faults>>
disk == <<marker, remote, fetched, commit, files>>
world == <<pinned, upstream>>

\* MkdirAll, git init, remote add and the two sparse-checkout commands,
\* each with the step after it.
Following == [mkdir |-> "init", init |-> "remote", remote |-> "sparseInit",
              sparseInit |-> "sparseSet", sparseSet |-> "fetch"]

Steps == {"remove", "mkdir", "init", "remote", "sparseInit", "sparseSet",
          "fetch", "checkout", "verify", "mark"}

alreadyFetched == marker = pinned /\ files >= MinFiles

Init ==
    /\ pc = "idle" /\ exit = "none" /\ faults = 0
    /\ pinned \in Commits /\ upstream \in Commits
    /\ marker = "none" /\ remote = "none" /\ fetched = "none" /\ commit = "none" /\ files = 0

-------------------------------------------------------------------------------
(* One run of main                                                           *)

Ends(status) == pc' = "idle" /\ exit' = status

Skip ==
    /\ pc = "idle" /\ alreadyFetched
    /\ Ends("ok")
    /\ UNCHANGED <<disk, world, faults>>

Begin ==
    /\ pc = "idle" /\ ~alreadyFetched
    /\ pc' = "remove" /\ exit' = "running"
    /\ UNCHANGED <<disk, world, faults>>

\* Seeded fault: the corpus files and the marker go, the git directory stays.
RemoveAllKeepsGit ==
    /\ pc = "remove"
    /\ files' = 0 /\ marker' = "none"
    /\ pc' = "mkdir"
    /\ UNCHANGED <<remote, fetched, commit, world, exit, faults>>

\* The whole directory goes, .git with its remote, FETCH_HEAD and HEAD included.
RemoveAll ==
    /\ pc = "remove"
    /\ files' = 0 /\ marker' = "none"
    /\ remote' = "none" /\ fetched' = "none" /\ commit' = "none"
    /\ pc' = "mkdir"
    /\ UNCHANGED <<world, exit, faults>>

\* MkdirAll and git init accept a directory, or a repository, that is there;
\* the sparse-checkout commands overwrite their settings.
SetUp ==
    /\ pc \in DOMAIN Following \ {"remote"}
    /\ pc' = Following[pc]
    /\ UNCHANGED <<disk, world, exit, faults>>

\* git refuses to add a remote that the repository has already.
AddRemote ==
    /\ pc = "remote"
    /\ remote' = "origin"
    /\ pc' = IF remote = "origin" THEN "idle" ELSE Following[pc]
    /\ exit' = IF remote = "origin" THEN "fail" ELSE exit
    /\ UNCHANGED <<marker, fetched, commit, files, world, faults>>

\* Seeded fault: the marker is written before the corpus is there.
FetchMarksFirst ==
    /\ pc = "fetch"
    /\ fetched' = upstream
    /\ marker' = pinned
    /\ pc' = "checkout"
    /\ UNCHANGED <<remote, commit, files, world, exit, faults>>

Fetch ==
    /\ pc = "fetch"
    /\ fetched' = upstream
    /\ pc' = "checkout"
    /\ UNCHANGED <<marker, remote, commit, files, world, exit, faults>>

Checkout ==
    /\ pc = "checkout"
    /\ commit' = fetched /\ files' = AllFiles
    /\ pc' = "verify"
    /\ UNCHANGED <<marker, remote, fetched, world, exit, faults>>

\* Seeded fault: HEAD is not compared with the pin.
VerifySkipped ==
    /\ pc = "verify"
    /\ pc' = "mark" /\ exit' = exit
    /\ UNCHANGED <<disk, world, faults>>

Verify ==
    /\ pc = "verify"
    /\ \/ commit = pinned /\ pc' = "mark" /\ exit' = exit
       \/ commit # pinned /\ Ends("fail")
    /\ UNCHANGED <<disk, world, faults>>

WriteMarker ==
    /\ pc = "mark"
    /\ marker' = pinned
    /\ Ends("ok")
    /\ UNCHANGED <<remote, fetched, commit, files, world, faults>>

-------------------------------------------------------------------------------
(* Failures: the run ends with exit 1, or is killed, with what was done.     *)

Fault == faults < MaxFaults /\ faults' = faults + 1

GitMissing ==
    /\ pc = "idle" /\ Fault
    /\ Ends("preflight")
    /\ UNCHANGED <<disk, world>>

\* Between two steps, or in one that left nothing behind.
Dies ==
    /\ pc # "idle" /\ Fault
    /\ Ends(IF pc = "remove" THEN "preflight" ELSE "fail")
    /\ UNCHANGED <<disk, world>>

RemoveAllFails ==
    /\ pc = "remove" /\ Fault
    /\ files' \in 0..files /\ marker' \in {marker, "none"}
    /\ remote' \in {remote, "none"} /\ fetched' \in {fetched, "none"}
    /\ Ends("fail")
    /\ UNCHANGED <<commit, world>>

CheckoutFails ==
    /\ pc = "checkout" /\ Fault
    /\ files' \in 0..AllFiles /\ commit' = fetched
    /\ Ends("fail")
    /\ UNCHANGED <<marker, remote, fetched, world>>

\* os.WriteFile creates the file before it writes, and may fail after.
WriteMarkerFails ==
    /\ pc = "mark" /\ Fault
    /\ marker' \in {"partial", pinned}
    /\ Ends("fail")
    /\ UNCHANGED <<remote, fetched, commit, files, world>>

-------------------------------------------------------------------------------
(* The outside world                                                         *)

Advance ==
    /\ Fault
    /\ upstream' \in Commits \ {upstream}
    /\ UNCHANGED <<pc, pinned, disk, exit>>

\* The pin is edited between two runs.
Bump ==
    /\ pc = "idle" /\ Fault
    /\ pinned' \in Commits \ {pinned} /\ exit' = "none"
    /\ UNCHANGED <<pc, upstream, disk>>

\* Corpus files are deleted between two runs.
Prune ==
    /\ pc = "idle" /\ Fault
    /\ files > 0 /\ files' \in 0..(files - 1) /\ exit' = "none"
    /\ UNCHANGED <<pc, world, marker, remote, fetched, commit>>

Run == Skip \/ Begin \/ RemoveAll \/ SetUp \/ AddRemote \/ Fetch \/ Checkout \/ Verify \/ WriteMarker
Fails == GitMissing \/ Dies \/ RemoveAllFails \/ CheckoutFails \/ WriteMarkerFails
Outside == Advance \/ Bump \/ Prune

Next == Run \/ Fails \/ Outside

Spec == Init /\ [][Next]_vars

\* Git commands end, and the generator is run again.
FairSpec == Spec /\ WF_vars(Run)

-------------------------------------------------------------------------------
(* Properties                                                                *)

\* Every variable has its type (proved, as part of the inductive invariant).
TypeOK ==
    /\ pc \in Steps \cup {"idle"}
    /\ pinned \in Commits /\ upstream \in Commits
    /\ marker \in Commits \cup {"none", "partial"}
    /\ remote \in {"none", "origin"}
    /\ fetched \in Commits \cup {"none"} /\ commit \in Commits \cup {"none"}
    /\ files \in 0..AllFiles
    /\ exit \in {"none", "running", "ok", "fail", "preflight"}
    /\ faults \in 0..MaxFaults

\* A run that exits 0, skipping or fetching, leaves the pinned commit's files
\* and its marker, whatever earlier runs left behind.
OkMeansPinned ==
    exit = "ok" => marker = pinned /\ commit = pinned /\ files >= MinFiles

\* A run that fails after it touched the directory never leaves a part of a
\* corpus that the next run takes for the whole.
FailureNotAccepted ==
    exit = "fail" /\ alreadyFetched => commit = pinned /\ files = AllFiles

\* Once nothing fails any more and upstream is at the pin, a run succeeds,
\* whatever the failed runs before it left in the directory.
Recovers ==
    (faults = MaxFaults /\ pinned = upstream) ~> (exit = "ok")
===============================================================================
