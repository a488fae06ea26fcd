--------------------------- MODULE StackDirectory ---------------------------
(***************************************************************************)
(* The life of a stack's directory: created by a save (stack.ts), cloned   *)
(* (stack-git.ts), deployed and deleted (stack-delete.ts), beside people   *)
(* who put files there themselves.  What is selected for every stack is    *)
(* one row of the settings (stack-config.ts), read through their cache     *)
(* (settings.ts).                                                          *)
(*                                                                         *)
(* How the files of a save are written is StackWrite; here a save writes   *)
(* them or fails.                                                          *)
(***************************************************************************)
EXTENDS Naturals, FiniteSets

CONSTANTS
    Stacks,           \* names of directories
    Requests,         \* requests the panel works on at a time
    MaxSelections,    \* bound on the selections requested
    MaxVisits,        \* bound on files put there by people
    MaxDirTroubles    \* bound on failures and crashes

ASSUME DirBoundsAssumption ==
    MaxSelections \in Nat /\ MaxVisits \in Nat /\ MaxDirTroubles \in Nat

VARIABLES
    files,        \* what a directory holds; NoDirectory when there is none
    containers,   \* with the directory's label: "counted" ones a deletion knows of,
                  \* "fresh" ones that started since
    selected,     \* the row of the settings: a selection per stack, 0 for none
    cache,        \* Settings.cacheList for that row
    requests,     \* what each request is doing
    dirLock,      \* who holds the lock of a directory
    raced,        \* a reading older than a write filled the cache
    abandoned,    \* directories a crash or a failed deletion left behind
    selections, visits, dirTroubles   \* counted for the bounds

settings == <<selected, cache, raced, selections>>
dirVars == <<settings, files, containers, abandoned, requests, dirLock, visits,
             dirTroubles>>

NoDirectory == {"absent"}
Selections == [Stacks -> 0..MaxSelections]
NotCached == <<>>

DirSteps == {"get", "query", "fill", "put", "clear",                  \* a selection
             "write", "rmdir", "validate", "rename", "up", "ups",
             "down", "count", "rm", "recount", "remove"}
Idle == [op |-> "none"]
Unlocked == "free"

ASSUME DirNamesAssumption == Unlocked \notin Requests

\* What a request carries: its stack, the step it is at, the map it read and the
\* selection it wants stored, and where it goes from there.
Job(op, s, at) ==
    [op |-> op, stack |-> s, at |-> at, all |-> [t \in Stacks |-> 0], wants |-> 0,
     next |-> "done"]

DirTypeOK ==
    /\ files \in [Stacks -> {NoDirectory} \cup SUBSET {"stack", "other"}]
    /\ containers \in [Stacks -> SUBSET {"counted", "fresh"}]
    /\ selected \in Selections /\ cache \in Selections \cup {NotCached}
    /\ dirLock \in [Stacks -> Requests \cup {Unlocked}]
    /\ \A r \in Requests :
         \/ requests[r] = Idle
         \/ /\ requests[r].stack \in Stacks /\ requests[r].at \in DirSteps
            /\ requests[r].all \in Selections
    \* Who works under the lock holds it, and who waits for none has none.
    /\ \A s \in Stacks : dirLock[s] # Unlocked =>
         requests[dirLock[s]] # Idle /\ requests[dirLock[s]].stack = s
    /\ raced \in BOOLEAN /\ abandoned \subseteq Stacks /\ dirTroubles \in 0..MaxDirTroubles

DirInit ==
    /\ files \in [Stacks -> {NoDirectory, {"stack"}}]
    /\ containers = [s \in Stacks |-> {}] /\ abandoned = {}
    /\ selected = [s \in Stacks |-> 0] /\ cache = NotCached /\ raced = FALSE
    /\ requests = [r \in Requests |-> Idle]
    /\ dirLock = [s \in Stacks |-> Unlocked]
    /\ selections = 0 /\ visits = 0 /\ dirTroubles = 0

DirTrouble == dirTroubles < MaxDirTroubles /\ dirTroubles' = dirTroubles + 1

At(r, step) == requests[r] # Idle /\ requests[r].at = step
DirGoes(r, step) == requests' = [requests EXCEPT ![r].at = step]

\* The operation ends, and its lock with it.
Ends(r) ==
    /\ requests' = [requests EXCEPT ![r] = Idle]
    /\ dirLock' = [s \in Stacks |-> IF dirLock[s] = r THEN Unlocked ELSE dirLock[s]]
GoesOn(r, step) ==
    IF step = "done" THEN Ends(r) ELSE DirGoes(r, step) /\ UNCHANGED dirLock

KeepsHost == UNCHANGED <<files, containers, abandoned, visits>>

----------------------------------------------------------------------------
(* One row for the selections of all stacks: StackConfig and Settings *)

\* StackConfig.set and remove: all selections are read, one is changed in the
\* copy, and the copy is stored.  Then the request goes on with `next`.
Selects(r, mine, wanted, next) ==
    requests' = [requests EXCEPT ![r] = [mine EXCEPT !.at = "get", !.wants = wanted,
                                                  !.next = next]]

\* Settings.get answers from the cache, or asks the database.
ConfigGet(r) ==
    /\ At(r, "get")
    /\ \/ /\ cache # NotCached
          /\ requests' = [requests EXCEPT ![r].at = "put", ![r].all = cache]
       \/ /\ cache = NotCached
          /\ DirGoes(r, "query")
    /\ KeepsHost /\ UNCHANGED <<settings, dirLock, dirTroubles>>

\* The database answers, or cannot be read: getAll takes that for no selections.
ConfigQuery(r) ==
    /\ At(r, "query")
    /\ \/ /\ requests' = [requests EXCEPT ![r].at = "fill", ![r].all = selected]
          /\ UNCHANGED dirTroubles
       \/ /\ DirTrouble
          /\ requests' = [requests EXCEPT ![r].at = "put", ![r].all = [s \in Stacks |-> 0]]
    /\ KeepsHost /\ UNCHANGED <<settings, dirLock>>

\* The answer arrives, and is cached whatever was stored meanwhile.
ConfigFill(r) ==
    /\ At(r, "fill")
    /\ cache' = requests[r].all
    /\ raced' = (raced \/ requests[r].all # selected)
    /\ DirGoes(r, "put")
    /\ KeepsHost /\ UNCHANGED <<selected, selections, dirLock, dirTroubles>>

\* Settings.set; a removal of what is not there stores nothing, and neither does
\* a page that only reads.  A failure is logged and the operation goes on.
ConfigPut(r) ==
    /\ At(r, "put")
    /\ LET mine == requests[r] IN
       \/ /\ \/ mine.op = "list"
             \/ mine.wants = 0 /\ mine.all[mine.stack] = 0
          /\ GoesOn(r, mine.next) /\ UNCHANGED <<selected, dirTroubles>>
       \/ /\ mine.op # "list" /\ (mine.wants # 0 \/ mine.all[mine.stack] # 0)
          /\ \/ /\ selected' = [mine.all EXCEPT ![mine.stack] = mine.wants]
                /\ DirGoes(r, "clear") /\ UNCHANGED <<dirLock, dirTroubles>>
             \/ /\ DirTrouble /\ GoesOn(r, mine.next) /\ UNCHANGED selected
    /\ KeepsHost /\ UNCHANGED <<cache, raced, selections>>

\* The database answered the write: deleteCache.
ConfigClearMutant(r) ==
    /\ At(r, "clear")
    /\ GoesOn(r, requests[r].next)
    /\ KeepsHost /\ UNCHANGED <<settings, dirTroubles>>
ConfigClear(r) ==
    /\ At(r, "clear")
    /\ cache' = NotCached /\ raced' = FALSE
    /\ GoesOn(r, requests[r].next)
    /\ KeepsHost /\ UNCHANGED <<selected, selections, dirTroubles>>

\* The cleaner drops what is older than a minute.
CacheCleaner ==
    /\ cache # NotCached
    /\ cache' = NotCached /\ raced' = FALSE
    /\ UNCHANGED <<selected, selections, requests, dirLock, dirTroubles>> /\ KeepsHost

----------------------------------------------------------------------------
(* Requests *)

Free(r) == requests[r] = Idle
Takes(r, s) == dirLock[s] = Unlocked /\ dirLock' = [dirLock EXCEPT ![s] = r]
Fresh == selections < MaxSelections /\ selections' = selections + 1

\* A page that lists or opens stacks reads the selections.
List(r, s) ==
    /\ Free(r)
    /\ Selects(r, Job("list", s, "get"), 0, "done")
    /\ KeepsHost /\ UNCHANGED <<settings, dirLock, dirTroubles>>

\* setFileConfig, under the lock of a save.
Select(r, s) ==
    /\ Free(r) /\ Takes(r, s) /\ Fresh
    /\ files[s] # NoDirectory
    /\ Selects(r, Job("select", s, "get"), selections', "done")
    /\ KeepsHost /\ UNCHANGED <<selected, cache, raced, dirTroubles>>

\* save of a new stack: mkdir reserves the name, then the selection is stored.
Create(r, s) ==
    /\ Free(r) /\ Takes(r, s) /\ Fresh
    /\ files[s] = NoDirectory
    /\ files' = [files EXCEPT ![s] = {}]
    /\ Selects(r, Job("create", s, "get"), selections', "write")
    /\ UNCHANGED <<selected, cache, raced, containers, abandoned, visits, dirTroubles>>

CreateWritesMutant(r) ==
    /\ At(r, "write")
    /\ LET s == requests[r].stack IN
       \/ /\ files[s] # NoDirectory
          /\ files' = [files EXCEPT ![s] = @ \cup {"stack"}]
          /\ Ends(r) /\ UNCHANGED dirTroubles
       \/ /\ DirTrouble
          /\ Selects(r, requests[r], 0, "done")
          /\ UNCHANGED <<files, dirLock>>
    /\ UNCHANGED <<settings, containers, abandoned, visits>>
\* The files are written as one transaction, or none is: then the selection is
\* forgotten and the directory is given back.
CreateWrites(r) ==
    /\ At(r, "write")
    /\ LET s == requests[r].stack IN
       \/ /\ files[s] # NoDirectory
          /\ files' = [files EXCEPT ![s] = @ \cup {"stack"}]
          /\ Ends(r) /\ UNCHANGED dirTroubles
       \/ /\ DirTrouble
          /\ Selects(r, requests[r], 0, "rmdir")
          /\ UNCHANGED <<files, dirLock>>
    /\ UNCHANGED <<settings, containers, abandoned, visits>>

\* rmdir removes an empty directory only; why it fails is not looked at.
GiveBackMutant(r) ==
    /\ At(r, "rmdir")
    /\ files' = [files EXCEPT ![requests[r].stack] = NoDirectory]
    /\ Ends(r)
    /\ UNCHANGED <<settings, containers, abandoned, visits, dirTroubles>>
GiveBack(r) ==
    /\ At(r, "rmdir")
    /\ LET s == requests[r].stack IN
       files' = IF files[s] = {} THEN [files EXCEPT ![s] = NoDirectory] ELSE files
    /\ Ends(r)
    /\ UNCHANGED <<settings, containers, abandoned, visits, dirTroubles>>

\* gitCloneStack: the clone is staged beside the stacks and checked there.
Clone(r, s) ==
    /\ Free(r) /\ Takes(r, s) /\ Fresh
    /\ requests' = [requests EXCEPT ![r] = [Job("clone", s, "validate")
                                            EXCEPT !.wants = selections']]
    /\ KeepsHost /\ UNCHANGED <<selected, cache, raced, dirTroubles>>

\* mkdir is the reservation, refused when the name was taken meanwhile.
CloneReserves(r) ==
    /\ At(r, "validate")
    /\ LET s == requests[r].stack IN
       \/ /\ files[s] = NoDirectory
          /\ files' = [files EXCEPT ![s] = {}]
          /\ DirGoes(r, "rename") /\ UNCHANGED <<dirLock, dirTroubles>>
       \/ files[s] # NoDirectory /\ Ends(r) /\ UNCHANGED <<files, dirTroubles>>
       \/ DirTrouble /\ Ends(r) /\ UNCHANGED files
    /\ UNCHANGED <<settings, containers, abandoned, visits>>

\* rename replaces an empty directory only.  The lock is released before the
\* handler stores the selection.
CloneRenames(r) ==
    /\ At(r, "rename")
    /\ LET s == requests[r].stack IN
       \/ /\ files[s] \in {{}, NoDirectory}
          /\ files' = [files EXCEPT ![s] = {"stack"}]
          /\ Selects(r, requests[r], requests[r].wants, "done")
          /\ dirLock' = [dirLock EXCEPT ![s] = Unlocked]
          /\ UNCHANGED dirTroubles
       \/ /\ files[s] \notin {{}, NoDirectory}
          /\ DirGoes(r, "rmdir") /\ UNCHANGED <<files, dirLock, dirTroubles>>
       \/ /\ DirTrouble
          /\ DirGoes(r, "rmdir") /\ UNCHANGED <<files, dirLock>>
    /\ UNCHANGED <<settings, containers, abandoned, visits>>

----------------------------------------------------------------------------
(* Docker *)

\* A command of a stack refuses to start while its terminal is taken; one that
\* came through another panel has a terminal of its own.
Busy(r) == \E other \in Requests \ {r} :
    At(other, "ups") /\ requests[other].stack = requests[r].stack

\* deploy, start, restart and update take no lock: Compose checks the files ...
Deploy(r, s) ==
    /\ Free(r)
    /\ files[s] \notin {{}, NoDirectory}
    /\ requests' = [requests EXCEPT ![r] = Job("deploy", s, "up")]
    /\ KeepsHost /\ UNCHANGED <<settings, dirLock, dirTroubles>>

\* ... and up creates the containers when it comes to it, from the directory it
\* was started in.
DeployStarts(r) ==
    /\ At(r, "up")
    /\ \/ files[requests[r].stack] # NoDirectory /\ DirGoes(r, "ups")
                /\ UNCHANGED dirLock
       \/ (files[requests[r].stack] = NoDirectory \/ Busy(r)) /\ Ends(r)
    /\ KeepsHost /\ UNCHANGED <<settings, dirTroubles>>

DeployRuns(r) ==
    /\ At(r, "ups")
    /\ LET s == requests[r].stack IN
       \/ containers' = [containers EXCEPT ![s] = @ \cup {"fresh"}]
       \/ UNCHANGED containers
    /\ Ends(r)
    /\ UNCHANGED <<settings, files, abandoned, visits, dirTroubles>>

----------------------------------------------------------------------------
(* Deleting *)

\* delete: under the lock, unless a command of the stack runs here.
Delete(r, s) ==
    /\ Free(r) /\ Takes(r, s)
    /\ files[s] # NoDirectory
    /\ requests' = [requests EXCEPT ![r] = Job("delete", s, "down")]
    /\ KeepsHost /\ UNCHANGED <<settings, dirTroubles>>

Fails(r) ==
    /\ DirTrouble \/ (Busy(r) /\ UNCHANGED dirTroubles)
    /\ Ends(r)

\* compose down, left out when Compose refuses the files.
DeleteDowns(r) ==
    /\ At(r, "down")
    /\ LET s == requests[r].stack IN
       \/ /\ containers' \in {containers, [containers EXCEPT ![s] = {}]}
          /\ DirGoes(r, "count") /\ UNCHANGED <<dirLock, dirTroubles>>
       \/ Fails(r) /\ UNCHANGED containers
    /\ UNCHANGED <<settings, files, abandoned, visits>>

\* readStackContainerIds finds what has the directory's label; a failure is not
\* an empty stack.
DeleteCounts(r) ==
    /\ At(r, "count")
    /\ \/ /\ DirGoes(r, "rm")
          /\ containers' = [containers EXCEPT ![requests[r].stack] =
                                IF @ = {} THEN {} ELSE {"counted"}]
          /\ UNCHANGED <<dirLock, dirTroubles>>
       \/ DirTrouble /\ Ends(r) /\ UNCHANGED containers
    /\ UNCHANGED <<settings, files, abandoned, visits>>

\* docker stop and rm of exactly those.
DeleteStops(r) ==
    /\ At(r, "rm")
    /\ \/ /\ containers' = [containers EXCEPT ![requests[r].stack] =
                                IF "fresh" \in @ THEN {"counted"} ELSE {}]
          /\ DirGoes(r, "recount") /\ UNCHANGED <<dirLock, dirTroubles>>
       \/ Fails(r) /\ UNCHANGED containers
    /\ UNCHANGED <<settings, files, abandoned, visits>>

\* What is there afterwards stops the deletion.
DeleteRecountsMutant(r) ==
    /\ At(r, "recount")
    /\ DirGoes(r, "remove")
    /\ KeepsHost /\ UNCHANGED <<settings, dirLock, dirTroubles>>
DeleteRecounts(r) ==
    /\ At(r, "recount")
    /\ \/ /\ containers[requests[r].stack] = {}
          /\ DirGoes(r, "remove") /\ UNCHANGED <<dirLock, dirTroubles>>
       \/ /\ containers[requests[r].stack] # {}
          /\ Ends(r) /\ UNCHANGED dirTroubles
       \/ DirTrouble /\ Ends(r)
    /\ KeepsHost /\ UNCHANGED settings

\* rm -r of the directory, then the selection.  A failure leaves the rest of the
\* files where they are.
DeleteRemoves(r) ==
    /\ At(r, "remove")
    /\ LET s == requests[r].stack IN
       \/ /\ files' = [files EXCEPT ![s] = NoDirectory]
          /\ abandoned' = abandoned \ {s}
          /\ Selects(r, requests[r], 0, "done")
          /\ UNCHANGED <<dirLock, dirTroubles>>
       \/ /\ DirTrouble /\ Ends(r)
          /\ files' = [files EXCEPT ![s] = @ \ {"stack"}]
          /\ abandoned' = abandoned \cup {s}
    /\ UNCHANGED <<settings, containers, visits>>

----------------------------------------------------------------------------
(* Everyone else *)

\* A person makes the directory, or puts a file in it.
Visit(s) ==
    /\ visits < MaxVisits /\ visits' = visits + 1
    /\ files' = [files EXCEPT ![s] = (@ \ NoDirectory) \cup {"other"}]
    /\ UNCHANGED <<settings, containers, abandoned, requests, dirLock, dirTroubles>>

\* The panel is killed and started again: requests, locks and cache are gone, and
\* with them the commands.  Nobody gives back the directory of an unfinished stack.
DirCrash ==
    /\ DirTrouble
    /\ requests' = [r \in Requests |-> Idle]
    /\ dirLock' = [s \in Stacks |-> Unlocked]
    /\ cache' = NotCached /\ raced' = FALSE
    /\ abandoned' = abandoned \cup {s \in Stacks : files[s] = {}}
    /\ UNCHANGED <<selected, selections, files, containers, visits>>

RequestStep(r) ==
    \/ ConfigGet(r) \/ ConfigQuery(r) \/ ConfigFill(r) \/ ConfigPut(r) \/ ConfigClear(r)
    \/ CreateWrites(r) \/ GiveBack(r) \/ CloneReserves(r) \/ CloneRenames(r)
    \/ DeployStarts(r) \/ DeployRuns(r)
    \/ DeleteDowns(r) \/ DeleteCounts(r) \/ DeleteStops(r) \/ DeleteRecounts(r)
    \/ DeleteRemoves(r)

DirNext ==
    \/ \E r \in Requests : RequestStep(r)
    \/ \E r \in Requests, s \in Stacks :
         \/ List(r, s) \/ Select(r, s) \/ Create(r, s) \/ Clone(r, s) \/ Deploy(r, s)
         \/ Delete(r, s)
    \/ \E s \in Stacks : Visit(s)
    \/ CacheCleaner \/ DirCrash

DirSpec == DirInit /\ [][DirNext]_dirVars

----------------------------------------------------------------------------
(* Properties *)

\* Request r is at `step` for stack s, and this step takes it on.
Does(r, step, s) ==
    At(r, step) /\ requests[r].stack = s /\ requests'[r] # requests[r]

OthersFilesStay ==
    \A s \in Stacks :
        "other" \in files[s] /\ "other" \notin files'[s]
            => \E r \in Requests : Does(r, "remove", s)
\* What people put in a directory goes with its deletion only (stack.ts:852): never
\* when a creation or a clone that failed gives the directory back, although the
\* file may appear at any moment after the name was reserved (stack.ts:621,
\* stack-git.ts:557).
OthersFilesKept == [][OthersFilesStay]_dirVars

NoContainerForgotten ==
    \A s \in Stacks :
        files[s] # NoDirectory /\ files'[s] = NoDirectory => "counted" \notin containers[s]
\* A directory is deleted only when no container of it is left, except one that a
\* deployment beside the deletion started after its last command
\* (stack-delete.ts:38-54): a deployment takes no lock.
DeletedWithoutContainers == [][NoContainerForgotten]_dirVars

\* A creation that fails gives the name back (stack.ts:616-623): an empty directory
\* is being filled, or a crash or a failed deletion left it.
NameGivenBack ==
    \A s \in Stacks : files[s] = {} =>
        \/ s \in abandoned
        \/ \E r \in Requests :
             /\ requests[r] # Idle /\ requests[r].stack = s
             /\ requests[r].op \in {"create", "clone"}

\* What the cache serves is what is stored, but for the moment between the write
\* and deleteCache (settings.ts:102) and after a reading that a write overtook.
CacheCurrent ==
    cache \in {NotCached, selected} \/ raced \/ \E r \in Requests : At(r, "clear")

SelectionOfOthersStays ==
    \A s \in Stacks :
        selected'[s] # selected[s] => \E r \in Requests : Does(r, "put", s)
\* "Store the selection of one stack" (stack-config.ts:200): it changes no other's.
\* It does, when two stacks are saved at once.
SelectionsKept == [][SelectionOfOthersStays]_dirVars

\* Creating, cloning and deleting leave nothing behind and take nothing of others with
\* them (stack.ts:571-628, 838-866).
DirectoriesKept ==
    [](DirTypeOK /\ NameGivenBack) /\ OthersFilesKept /\ DeletedWithoutContainers
=============================================================================
