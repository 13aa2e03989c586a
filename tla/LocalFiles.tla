------------------------------ MODULE LocalFiles ------------------------------
(***************************************************************************)
(* The lists the desktop client keeps in files under ~/.seasagi: MCP       *)
(* servers (internal/mcp), prompt presets (internal/prompts), skills       *)
(* (internal/skills) and request logs (internal/logs); the manager that    *)
(* copies the files to a folder or a WebDAV server and back                *)
(* (internal/sync), and what the lists put into other programs' files.     *)
(*                                                                         *)
(* An entry of a list is [key, on, val]: val tells whether a server is for *)
(* Claude, what a preset says, how a skill was installed.                  *)
(***************************************************************************)
EXTENDS Naturals, Sequences, FiniteSets, SequencesExt

CONSTANTS
    Drafts,         \* what may be saved: [mcp, prompts -> entries, skills -> names]
    Elsewhere,      \* what another device left in the folder or on the server
    Providers,      \* "folder" (iCloud, local) or "webdav"
    Installs,       \* InstallFromGitHub and InstallFromLocal calls at once
    LogKinds,       \* what a request log may say
    MaxLogs, Batch, \* maxLogs, persistBatch
    MaxCommands     \* bound: commands, logs and writes that fail

VARIABLES
    up,         \* whether the client runs
    list,       \* the lists in memory; while it is down, as they were
    file,       \* mcp_servers.json, prompt_presets.json, skills.json
    edit,       \* how far an edit of each list is
    seen,       \* each list before that edit
    remote,     \* the files in the folder or on the server
    sync,       \* the call of Push or Pull that runs
    status,     \* SyncStatus.Status: whose success, "half" if not every file was reached
    touched,    \* files edited since that call began
    odd,        \* lists and skills whose file, directory or entry broke before
    claude,     \* ~/.claude/settings.json: [servers, rest, by]
    prompt,     \* ~/CLAUDE.md
    dir,        \* ~/.claude/skills
    install,    \* the installations under way
    log,        \* logs.Service: [all, file, dirty, lost]
    commands    \* commands so far

lists == <<list, file, edit, seen>>
syncing == <<remote, sync, status>>
vars == <<up, list, file, edit, seen, remote, sync, status, touched, odd, claude, prompt, dir,
          install, log, commands>>

Lists == {"mcp", "prompts", "skills"}
Files == <<"mcp", "prompts", "skills">>
Absent == <<[file |-> "absent"]>>
Torn == <<[file |-> "torn"]>>
Idle == [at |-> "idle"]
None == [kind |-> "none"]

Newest(s) == SubSeq(s, 1, IF Len(s) < MaxLogs THEN Len(s) ELSE MaxLogs)
Load(f) == IF f \in {Absent, Torn} THEN <<>> ELSE f

Init ==
    /\ up = TRUE /\ commands = 0
    /\ file = [l \in Lists |-> Absent] /\ list = [l \in Lists |-> <<>>] /\ seen = list
    /\ edit = [l \in Lists |-> "no"]
    /\ remote = Elsewhere /\ sync = Idle /\ status = "" /\ touched = {} /\ odd = {}
    /\ claude \in {[servers |-> {"own"}, rest |-> r, by |-> "user"] : r \in {"kept", "garbage"}}
    /\ prompt = "own" /\ dir = [n \in Drafts.skills |-> None]
    /\ install = [i \in Installs |-> Idle]
    /\ log = [all |-> <<>>, file |-> <<>>, dirty |-> 0, lost |-> FALSE]

(* What a file that is not the list any more makes odd. *)
Broken(l) == {l} \cup (IF l = "skills" THEN Drafts.skills ELSE {})

Command == up /\ commands < MaxCommands /\ commands' = commands + 1

(* NewService of each: a file that is missing or does not parse is empty. *)
Boot ==
    /\ ~ up /\ up' = TRUE
    /\ list' = [l \in Lists |-> Load(file[l])] /\ seen' = list'
    /\ edit' = [l \in Lists |-> "no"]
    /\ log' = [all |-> Newest(log.file), file |-> log.file, dirty |-> 0, lost |-> FALSE]
    /\ UNCHANGED <<file, syncing, touched, odd, claude, prompt, dir, install, commands>>

(* Nothing is saved at the end. A file that is being pulled stays half. *)
ProcessEnds ==
    /\ Command /\ up' = FALSE
    /\ sync' = Idle /\ status' = "" /\ touched' = {}
    /\ install' = [i \in Installs |-> Idle]
    /\ \/ file' = file
       \/ /\ sync.at = "pull" /\ sync.left # <<>>
          /\ file' = [file EXCEPT ![Head(sync.left)] = Torn]
    /\ odd' = odd \cup UNION {Broken(l) : l \in {k \in Lists : file'[k] # file[k]}}
                  \cup (IF edit.mcp = "no" THEN {} ELSE {"claude"})
                  \cup (IF edit.skills = "no" THEN {} ELSE Drafts.skills)
                  \cup {install[i].name : i \in {j \in Installs : install[j] # Idle}}
    /\ UNCHANGED <<list, edit, seen, remote, claude, prompt, dir, log>>

-----------------------------------------------------------------------------
(* The three lists.                                                        *)
At(s, key) == SelectInSeq(s, LAMBDA e : e.key = key)
Upsert(s, e) == IF At(s, e.key) = 0 THEN Append(s, e) ELSE [s EXCEPT ![At(s, e.key)] = e]
Drop(s, key) == RemoveAt(s, At(s, key))
Toggle(s, key) == [s EXCEPT ![At(s, key)].on = ~ @]
Keys(s) == {s[k].key : k \in DOMAIN s}

(* An edit holds the service's lock until it has saved. *)
Edits(l, new, how) ==
    /\ edit[l] = "no"
    /\ list' = [list EXCEPT ![l] = new] /\ seen' = [seen EXCEPT ![l] = list[l]]
    /\ edit' = [edit EXCEPT ![l] = how]
    /\ UNCHANGED file

SaveServer == \E e \in Drafts.mcp : Edits("mcp", Upsert(list.mcp, e), "apps")
SavePreset == \E e \in Drafts.prompts : Edits("prompts", Upsert(list.prompts, e), "stuck")
Delete ==
    \E l \in {"mcp", "prompts"} : \E key \in Keys(list[l]) :
        Edits(l, Drop(list[l], key), IF l = "mcp" THEN "apps" ELSE "save")
ToggleServer == \E key \in Keys(list.mcp) : Edits("mcp", Toggle(list.mcp, key), "apps")

(* Mutant of ToggleSkill: the switch is not saved. *)
ToggleSkillUnsaved == \E key \in Keys(list.skills) : Edits("skills", Toggle(list.skills, key), "no")
ToggleSkill == \E key \in Keys(list.skills) : Edits("skills", Toggle(list.skills, key), "save")

Edit ==
    /\ Command
    /\ SaveServer \/ SavePreset \/ Delete \/ ToggleServer \/ ToggleSkill
    /\ UNCHANGED <<up, syncing, touched, odd, claude, prompt, dir, install, log>>

(* SavePreset waits for its own lock, for ever, once it has saved. *)
AfterSave(how) == CASE how = "apps" -> "sync" [] how = "stuck" -> "wedged" [] how = "save" -> "no"

(* persist: what was written of the new file takes the old one's place. *)
Persist(l) ==
    /\ up /\ edit[l] \in {"apps", "stuck", "save"}
    /\ \/ file' = [file EXCEPT ![l] = list[l]] /\ odd' = odd \ {l} /\ UNCHANGED commands
       \/ Command /\ file' = [file EXCEPT ![l] = Torn] /\ odd' = odd \cup Broken(l)
    /\ edit' = [edit EXCEPT ![l] = AfterSave(@)]
    /\ touched' = touched \cup {l}
    /\ UNCHANGED <<up, list, seen, syncing, claude, prompt, dir, install, log>>

(* syncToApps: of the three programs only Claude's file is written, with   *)
(* the enabled servers that are meant for it, and nobody else's.           *)
ForClaude(s) == {s[k].key : k \in {j \in DOMAIN s : s[j].on /\ s[j].val \in {"claude", "all"}}}
SyncToApps ==
    /\ up /\ edit.mcp = "sync"
    /\ claude' = [servers |-> ForClaude(list.mcp), by |-> "us",
                  rest |-> IF claude.rest = "garbage" THEN "gone" ELSE claude.rest]
    /\ edit' = [edit EXCEPT !.mcp = "no"] /\ odd' = odd \ {"claude"}
    /\ UNCHANGED <<up, list, file, seen, syncing, touched, prompt, dir, install, log, commands>>

ApplyPreset ==
    /\ Command /\ edit.prompts = "no"
    /\ \E k \in DOMAIN list.prompts : prompt' = list.prompts[k].val
    /\ UNCHANGED <<up, lists, syncing, touched, odd, claude, dir, install, log>>

-----------------------------------------------------------------------------
(* Skills: a call of Install works on the directory without the lock, and  *)
(* takes it for the list.                                                  *)
Working(n) == {i \in Installs : install[i] # Idle /\ install[i].name = n}
InstallIs(i, at) == install' = [install EXCEPT ![i].at = at]
InstallEnds(i) == install' = [install EXCEPT ![i] = Idle]
Outside == UNCHANGED <<up, syncing, touched, claude, prompt, log>>

StartInstall(i) ==
    /\ Command /\ install[i] = Idle
    /\ \E n \in Drafts.skills, from \in {"clone", "symlink"} :
       /\ install' = [install EXCEPT ![i] =
              [at |-> IF from = "clone" THEN "remove" ELSE "link", name |-> n, val |-> from]]
       /\ odd' = IF \E j \in Working(n) : install[j].val # from THEN odd \cup {n} ELSE odd
    /\ Outside /\ UNCHANGED <<lists, dir>>

(* What is there is removed before it is known that the clone succeeds. *)
RemoveOld(i) ==
    /\ install[i].at = "remove"
    /\ dir' = [dir EXCEPT ![install[i].name] = None]
    /\ InstallIs(i, "clone")
    /\ Outside /\ UNCHANGED <<lists, odd, commands>>

CloneStarts(i) ==
    /\ install[i].at = "clone"
    /\ IF dir[install[i].name] = None
       THEN dir' = [dir EXCEPT ![install[i].name] = [kind |-> "partial", by |-> i]] /\ InstallIs(i, "cloning")
       ELSE InstallEnds(i) /\ UNCHANGED dir
    /\ Outside /\ UNCHANGED <<lists, odd, commands>>

CloneEnds(i) ==
    /\ install[i].at = "cloning"
    /\ LET n == install[i].name
           mine == dir[n] = [kind |-> "partial", by |-> i]
       IN \/ mine /\ dir' = [dir EXCEPT ![n] = [kind |-> "clone"]] /\ InstallIs(i, "list") /\ UNCHANGED odd
          \/ /\ dir' = IF mine THEN [dir EXCEPT ![n] = None] ELSE dir
             /\ InstallEnds(i) /\ odd' = odd \cup {n}
    /\ Outside /\ UNCHANGED <<lists, commands>>

(* ln -sf makes the link inside a directory that is there, or that a link  *)
(* points to.                                                              *)
Link(i) ==
    /\ install[i].at = "link"
    /\ LET n == install[i].name
       IN IF dir[n] = None
          THEN dir' = [dir EXCEPT ![n] = [kind |-> "symlink"]] /\ UNCHANGED odd
          ELSE UNCHANGED dir /\ odd' = odd \cup {n}
    /\ InstallIs(i, "list")
    /\ Outside /\ UNCHANGED <<lists, commands>>

ListSkill(i) ==
    /\ install[i].at = "list"
    /\ Edits("skills", Upsert(list.skills, [key |-> install[i].name, on |-> TRUE, val |-> install[i].val]),
             "save")
    /\ InstallEnds(i)
    /\ Outside /\ UNCHANGED <<odd, dir, commands>>

(* os.Remove leaves a directory that is not empty. *)
UninstallSkill ==
    /\ Command
    /\ \E k \in DOMAIN list.skills :
          LET e == list.skills[k]
          IN /\ Edits("skills", Drop(list.skills, e.key), "save")
             /\ dir' = [dir EXCEPT ![e.key] =
                           IF e.val = "symlink" /\ @.kind \in {"clone", "partial"} THEN @ ELSE None]
             /\ odd' = IF Working(e.key) # {} THEN odd \cup {e.key} ELSE odd
    /\ Outside /\ UNCHANGED install

-----------------------------------------------------------------------------
(* Push and Pull, one at a time, file by file.                             *)
StartSync ==
    /\ Command /\ sync = Idle
    /\ \E d \in {"push", "pull"}, p \in Providers :
          sync' = [at |-> d, by |-> p, left |-> Files, skipped |-> FALSE]
    /\ status' = "syncing" /\ touched' = {}
    /\ UNCHANGED <<up, lists, remote, odd, claude, prompt, dir, install, log>>

Ends(s) == sync' = Idle /\ status' = s
NextFile(skip) ==
    IF Len(sync.left) = 1
    THEN Ends(IF sync.skipped \/ skip THEN "half" ELSE sync.at)
    ELSE /\ sync' = [sync EXCEPT !.left = Tail(@), !.skipped = @ \/ skip]
         /\ UNCHANGED status

(* A file that is not there is passed over. *)
SyncFile ==
    /\ up /\ sync # Idle
    /\ LET f == Head(sync.left)
       IN IF sync.at = "push"
          THEN /\ remote' = IF file[f] = Absent THEN remote ELSE [remote EXCEPT ![f] = file[f]]
               /\ UNCHANGED <<file, odd>>
          ELSE /\ file' = IF remote[f] = Absent THEN file ELSE [file EXCEPT ![f] = remote[f]]
               /\ odd' = IF file'[f] = file[f] THEN odd ELSE odd \cup Broken(f)
               /\ UNCHANGED remote
    /\ NextFile(FALSE)
    /\ UNCHANGED <<up, list, edit, seen, touched, claude, prompt, dir, install, log, commands>>

(* A server that refuses ends the call; one that is not reached ends a     *)
(* Push, but a Pull goes on and calls itself a success.                    *)
SyncFails ==
    /\ up /\ sync # Idle /\ sync.by = "webdav"
    /\ \/ Ends("error")
       \/ sync.at = "pull" /\ NextFile(TRUE)
    /\ UNCHANGED <<up, lists, remote, touched, odd, claude, prompt, dir, install, log, commands>>

-----------------------------------------------------------------------------
(* The request log, newest first.                                          *)
Unlogged == <<up, lists, syncing, touched, odd, claude, prompt, dir, install>>

Saved(all) ==
    \/ log' = [all |-> all, file |-> all, dirty |-> 0, lost |-> FALSE]
    \/ log' = [all |-> all, file |-> log.file, dirty |-> 0, lost |-> TRUE]
RecordLog ==
    /\ Command
    /\ \E k \in LogKinds :
          LET all == Newest(<<[kind |-> k, serial |-> commands]>> \o log.all)
          IN IF log.dirty + 1 >= Batch THEN Saved(all)
             ELSE log' = [log EXCEPT !.all = all, !.dirty = @ + 1]
    /\ UNCHANGED Unlogged

ClearLogs == Command /\ Saved(<<>>) /\ UNCHANGED Unlogged

(* A limit of 0 is 100, an offset past the end gives nothing. *)
ListLogsFiltered(kinds, limit, offset) ==
    LET all == SelectSeq(log.all, LAMBDA e : e.kind \in kinds)
        most == IF limit = 0 THEN 100 ELSE limit
        end == IF offset + most > Len(all) THEN Len(all) ELSE offset + most
    IN IF offset >= Len(all) THEN <<>> ELSE SubSeq(all, offset + 1, end)

-----------------------------------------------------------------------------
Installing(i) ==
    RemoveOld(i) \/ CloneStarts(i) \/ CloneEnds(i) \/ Link(i) \/ ListSkill(i)

Next ==
    \/ Boot \/ ProcessEnds \/ Edit \/ SyncToApps \/ ApplyPreset \/ UninstallSkill
    \/ StartSync \/ SyncFile \/ SyncFails \/ RecordLog \/ ClearLogs
    \/ \E l \in Lists : Persist(l)
    \/ \E i \in Installs : StartInstall(i) \/ Installing(i)

-----------------------------------------------------------------------------
TypeOK ==
    /\ up \in BOOLEAN /\ commands \in 0..MaxCommands
    /\ edit \in [Lists -> {"no", "apps", "stuck", "save", "sync", "wedged"}]
    /\ status \in {"", "syncing", "push", "pull", "half", "error"}
    /\ claude.rest \in {"kept", "garbage", "gone"}
    /\ log.dirty \in 0..(Batch - 1) /\ Len(log.all) <= MaxLogs
    /\ DOMAIN file = Lists /\ DOMAIN list = Lists /\ DOMAIN remote = Lists

(* No list has a key twice, whichever edits and installations ran. *)
KeysOnce == \A l \in Lists : Cardinality(Keys(list[l])) = Len(list[l])

(* What Claude is given are the servers that are enabled for it, also      *)
(* after restarts, and the other settings of a file that parses stay.      *)
ClaudeServed ==
    /\ (claude.by = "us" /\ edit.mcp = "no" /\ odd \cap {"mcp", "claude"} = {})
           => claude.servers = ForClaude(list.mcp)
    /\ claude.rest = "gone" => claude.by = "us"

(* A skill that no installation is working on, and that was never linked   *)
(* over another, linked and cloned at once, uninstalled meanwhile or left  *)
(* by a clone that failed, is listed if and only if it is there.           *)
SkillsThere ==
    \A n \in Drafts.skills :
        (up /\ n \notin odd /\ Working(n) = {})
            => (n \in Keys(list.skills) <=> dir[n] # None)

(* A sync that says it succeeded, and reached the server for every file,   *)
(* has made the one side like the other but for what was edited meanwhile. *)
SyncTruth ==
    status \in {"push", "pull"} =>
        \A f \in Lists \ touched :
            \/ file[f] = remote[f]
            \/ (IF status = "push" THEN file ELSE remote)[f] = Absent

(* Page by page the log is read once and whole. *)
Pages(kinds, limit) ==
    FoldLeft(LAMBDA read, k : read \o ListLogsFiltered(kinds, limit, k * limit), <<>>,
            [k \in 1..(MaxLogs + 1) |-> k - 1])
PagesWhole ==
    \A kinds \in SUBSET LogKinds, limit \in 1..MaxLogs :
        Pages(kinds, limit) = SelectSeq(log.all, LAMBDA e : e.kind \in kinds)

LocalFilesSound == KeysOnce /\ ClaudeServed /\ SkillsThere /\ SyncTruth /\ PagesWhole

(* A restart brings back every list whose file was written whole, as the   *)
(* user left it, but for a file that was pulled and an edit that was cut;  *)
(* and the log but for fewer than a batch of its newest entries.           *)
KeepsLists ==
    Boot => \A l \in Lists :
        \/ list'[l] = list[l] \/ l \in odd
        \/ edit[l] # "no" /\ list'[l] = seen[l]
KeepsLog ==
    (Boot /\ ~ log.lost) =>
        \E d \in 0..(Batch - 1) :
            IsPrefix(SubSeq(log.all, d + 1, Len(log.all)), log'.all)
KeepsFiles == KeepsLists /\ KeepsLog

ConstantsOK ==
    /\ Batch >= 1 /\ MaxLogs >= 1 /\ Installs # {}
    /\ DOMAIN Elsewhere = Lists /\ Providers \subseteq {"folder", "webdav"}
=============================================================================
