---------------------------- MODULE ChannelConfig ----------------------------
(***************************************************************************)
(* The desktop's channels: internal/config/service.go in memory and in     *)
(* config.json, the keys of a channel in the keychain, and the commands of *)
(* app.go that change them: the user's editor, signing in and out,         *)
(* fetching the platform's channels. Every operation of the configuration  *)
(* service holds Service.mu and ends with saveLocked, which writes the     *)
(* file in place and without any key; a command is several such calls with *)
(* the keychain or the platform in between. The keychain is that of macOS. *)
(***************************************************************************)
EXTENDS Naturals, Sequences, Sublists

CONSTANTS
    Custom,         \* ids of channels the user may have
    Accounts,       \* accounts; each has one platform channel, named after it
    KeyLists,       \* lists of keys a channel may be given
    NoKeys, NoChannel, NoAccount,
    Commands,       \* goroutines of frontend calls that sign in, out or fetch
    InitialFiles,   \* what an installation may find on disk
    Faults          \* which of "torn", "refused", "keychain" may happen

Ids == Custom \cup Accounts
Channel == [id : Ids, type : {"custom", "platform"}, keys : KeyLists \cup {NoKeys}]
File == [form : {"absent", "whole", "torn"}, channels : Seq(Channel),
         default : Ids \cup {NoChannel}]

(* No id twice; platform channels are the accounts', and without keys. *)
Proper(chs) ==
    /\ \A i, j \in DOMAIN chs : chs[i].id = chs[j].id => i = j
    /\ \A i \in DOMAIN chs : IF chs[i].type = "custom" THEN chs[i].id \in Custom
                              ELSE chs[i].id \in Accounts /\ chs[i].keys = NoKeys

ConstantsOK ==
    /\ InitialFiles \subseteq File
    /\ Faults \subseteq {"torn", "refused", "keychain"}
    /\ NoKeys \notin KeyLists /\ NoChannel \notin Ids /\ NoAccount \notin Accounts
    /\ Custom \cap Accounts = {}
    /\ \A f \in InitialFiles : Proper(f.channels)
    /\ \A f \in InitialFiles : f.form # "whole" => f.channels = <<>> /\ f.default = NoChannel

VARIABLES
    up,         \* the process runs
    channels,   \* Service.channels; of a process that has ended, its last ones
    default,    \* config.DefaultChannelID, likewise
    file,       \* config.json
    keychain,   \* the entry channel_keys_<id> of each custom channel
    account,    \* auth.Service: who is signed in
    edit,       \* the editor's call: what it does, to which channel, with which keys
    pc,         \* per command, the call it makes next
    fetched,    \* per command, the channels it fetched
    intact      \* history: the disk and the keychain took everything they were given

vars == <<up, channels, default, file, keychain, account, edit, pc, fetched, intact>>

NoEdit == [op |-> "none", id |-> NoChannel, keys |-> NoKeys]
Goto(c, l) == pc' = [pc EXCEPT ![c] = l]

-----------------------------------------------------------------------------
NoFile == [form |-> "absent", channels |-> <<>>, default |-> NoChannel]

(* saveLocked: no key goes to the file. *)
Saved(chs, def) ==
    [form |-> "whole", channels |-> [i \in DOMAIN chs |-> [chs[i] EXCEPT !.keys = NoKeys]],
     default |-> def]

(* restoreChannelSecretsLocked: keys come from the keychain, but keys an   *)
(* older build left in the file stay and move to the keychain.             *)
Restored(chs, kc) ==
    [i \in DOMAIN chs |->
        IF chs[i].keys # NoKeys \/ chs[i].id \notin Custom THEN chs[i]
        ELSE [chs[i] EXCEPT !.keys = kc[chs[i].id]]]

Migrated(chs, kc) ==
    [c \in Custom |->
        IF \E i \in DOMAIN chs : chs[i].id = c /\ chs[i].keys # NoKeys
        THEN (CHOOSE ch \in {chs[i] : i \in DOMAIN chs} : ch.id = c).keys ELSE kc[c]]

(* Mutant of WithCustom: an edit without keys clears those in memory. *)
WithCustomAsGiven(chs, id, keys) ==
    IF \E i \in DOMAIN chs : chs[i].id = id
    THEN [i \in DOMAIN chs |->
            IF chs[i].id = id THEN [chs[i] EXCEPT !.keys = keys] ELSE chs[i]]
    ELSE Append(chs, [id |-> id, type |-> "custom", keys |-> keys])

(* SaveCustomChannel of the service: an edit without keys keeps those in   *)
(* memory, since the editor never sees them.                               *)
WithCustom(chs, id, keys) ==
    IF \E i \in DOMAIN chs : chs[i].id = id
    THEN [i \in DOMAIN chs |->
            IF chs[i].id = id /\ keys # NoKeys THEN [chs[i] EXCEPT !.keys = keys] ELSE chs[i]]
    ELSE Append(chs, [id |-> id, type |-> "custom", keys |-> keys])

Only(chs, id) == Sublist(chs, {i \in DOMAIN chs : chs[i].id = id})
Without(chs, id) == Sublist(chs, {i \in DOMAIN chs : chs[i].id # id})
CustomOnly(chs) == Sublist(chs, {i \in DOMAIN chs : chs[i].type # "platform"})
Mentions(chs, id) == \E i \in DOMAIN chs : chs[i].id = id

(* UpsertPlatformChannels: all platform channels are replaced. *)
WithPlatform(chs, ids) ==
    CustomOnly(chs) \o [i \in DOMAIN ids |->
                          [id |-> ids[i], type |-> "platform", keys |-> NoKeys]]

-----------------------------------------------------------------------------
Init ==
    /\ up = FALSE
    /\ file \in InitialFiles
    /\ keychain = [c \in Custom |-> NoKeys]
    /\ channels = file.channels /\ default = file.default
    /\ account = NoAccount
    /\ edit = NoEdit
    /\ pc = [c \in Commands |-> "idle"]
    /\ fetched = [c \in Commands |-> <<>>]
    /\ intact = TRUE

(* What os.WriteFile does: the whole file; or an error before it is        *)
(* touched; or it is cut short, with the process alive or dead.            *)
Write(chs, def) ==
    \/ /\ file' = Saved(chs, def)
       /\ UNCHANGED <<up, intact>>
    \/ /\ "refused" \in Faults
       /\ file' = file /\ intact' = FALSE
       /\ UNCHANGED up
    \/ /\ "torn" \in Faults
       /\ file' = [form |-> "torn", channels |-> <<>>, default |-> NoChannel]
       /\ intact' = FALSE
       /\ up' \in BOOLEAN

(* NewServiceWithPath: load. A file that does not parse leaves the         *)
(* defaults, and the ensure functions then save them over it.              *)
Boot ==
    /\ ~up
    /\ up' = TRUE
    /\ LET chs == IF file.form = "whole" THEN file.channels ELSE <<>> IN
       /\ channels' = Restored(chs, keychain)
       /\ default' = IF file.form = "whole" THEN file.default ELSE NoChannel
       /\ \/ /\ keychain' = Migrated(chs, keychain)
             /\ intact' = TRUE
          \/ /\ "keychain" \in Faults /\ Migrated(chs, keychain) # keychain
             /\ keychain' = keychain /\ intact' = FALSE
    /\ file' = IF file.form = "whole" THEN file ELSE Saved(<<>>, NoChannel)
    /\ edit' = NoEdit
    /\ pc' = [c \in Commands |-> "idle"]
    /\ fetched' = [c \in Commands |-> <<>>]
    /\ UNCHANGED account

(* The process ends, perhaps in the middle of an edit. *)
ProcessEnds ==
    /\ up
    /\ up' = FALSE
    /\ intact' = (intact /\ edit = NoEdit)
    /\ UNCHANGED <<channels, default, file, keychain, account, edit, pc, fetched>>

(* The user starts an edit; the form waits for the answer of the last one. *)
(* The id of a new channel is the time, so the keychain knows nothing of   *)
(* it; an id is modelled as new again once nothing is left of it.          *)
StartEdit ==
    /\ up /\ edit = NoEdit
    /\ \E id \in Custom :
         \/ /\ Mentions(channels, id) \/ keychain[id] = NoKeys
            /\ \E keys \in KeyLists \cup {NoKeys} :
                 edit' = [op |-> IF keys = NoKeys THEN "save" ELSE "keys",
                          id |-> id, keys |-> keys]
         \/ /\ Mentions(channels, id)
            /\ edit' = [op |-> "delete_keys", id |-> id, keys |-> NoKeys]
    /\ UNCHANGED <<up, channels, default, file, keychain, account, pc, fetched, intact>>

(* App.SaveCustomChannel, keys first: saveKey deletes the entry and adds   *)
(* it anew; if that fails the command returns and the old entry is gone.   *)
StoreKeys ==
    /\ up /\ edit.op = "keys"
    /\ \/ /\ keychain' = [keychain EXCEPT ![edit.id] = edit.keys]
          /\ edit' = [edit EXCEPT !.op = "save"]
          /\ UNCHANGED intact
       \/ /\ "keychain" \in Faults
          /\ keychain' = [keychain EXCEPT ![edit.id] = NoKeys]
          /\ edit' = NoEdit
          /\ intact' = FALSE
    /\ UNCHANGED <<up, channels, default, file, account, pc, fetched>>

(* ... and then the channel. *)
SaveCustomChannel ==
    /\ up /\ edit.op = "save"
    /\ channels' = WithCustom(channels, edit.id, edit.keys)
    /\ edit' = NoEdit
    /\ Write(channels', default)
    /\ UNCHANGED <<default, keychain, account, pc, fetched>>

(* App.DeleteCustomChannel: the keychain's entries, then the channel. *)
DeleteKeys ==
    /\ up /\ edit.op = "delete_keys"
    /\ \/ /\ keychain' = [keychain EXCEPT ![edit.id] = NoKeys]
          /\ edit' = [edit EXCEPT !.op = "delete"]
       \/ /\ "keychain" \in Faults
          /\ keychain' = keychain
          /\ edit' = NoEdit
    /\ UNCHANGED <<up, channels, default, file, account, pc, fetched, intact>>

DeleteCustomChannel ==
    /\ up /\ edit.op = "delete"
    /\ channels' = Without(channels, edit.id)
    /\ default' = IF default = edit.id THEN NoChannel ELSE default
    /\ edit' = NoEdit
    /\ Write(channels', default')
    /\ UNCHANGED <<keychain, account, pc, fetched>>

(* SetDefaultModel. *)
SetDefaultModel ==
    /\ up
    /\ \E id \in {ch.id : ch \in {channels[i] : i \in DOMAIN channels}} \cup {NoChannel} :
          default' = id
    /\ Write(channels, default')
    /\ UNCHANGED <<channels, keychain, account, edit, pc, fetched>>

(* ReorderChannels: the listed channels in the given order, then the rest. *)
ReorderChannels ==
    /\ up
    /\ \E first \in Ids : channels' = Only(channels, first) \o Without(channels, first)
    /\ Write(channels', default)
    /\ UNCHANGED <<default, keychain, account, edit, pc, fetched>>

(* The other setters change a field that is not modelled, and save. *)
SetSetting ==
    /\ up
    /\ Write(channels, default)
    /\ UNCHANGED <<channels, default, keychain, account, edit, pc, fetched>>

-----------------------------------------------------------------------------
(* App.Login: the platform's answer, then info and token under one lock. *)
Login(c) ==
    /\ up /\ pc[c] = "idle"
    /\ account' \in Accounts
    /\ Goto(c, "fetch")
    /\ UNCHANGED <<up, channels, default, file, keychain, edit, fetched, intact>>

(* App.SyncPlatformChannels begins with a check that somebody is signed in. *)
SyncPlatformChannels(c) ==
    /\ up /\ pc[c] = "idle" /\ account # NoAccount
    /\ Goto(c, "fetch")
    /\ UNCHANGED <<up, channels, default, file, keychain, account, edit, fetched, intact>>

(* FetchPlatformChannels: with the token of this moment. Signed out        *)
(* meanwhile gives an empty list; an error ends the command.               *)
Fetch(c) ==
    /\ up /\ pc[c] = "fetch"
    /\ \/ /\ fetched' = [fetched EXCEPT ![c] = IF account = NoAccount THEN <<>> ELSE <<account>>]
          /\ Goto(c, "upsert")
       \/ /\ Goto(c, "idle")
          /\ UNCHANGED fetched
    /\ UNCHANGED <<up, channels, default, file, keychain, account, edit, intact>>

UpsertPlatformChannels(c) ==
    /\ up /\ pc[c] = "upsert"
    /\ channels' = WithPlatform(channels, fetched[c])
    /\ fetched' = [fetched EXCEPT ![c] = <<>>]
    /\ Goto(c, "idle")
    /\ Write(channels', default)
    /\ UNCHANGED <<default, keychain, account, edit>>

(* App.Logout: sign out, then clear the platform's channels. *)
Logout(c) ==
    /\ up /\ pc[c] = "idle"
    /\ account' = NoAccount
    /\ Goto(c, "clear")
    /\ UNCHANGED <<up, channels, default, file, keychain, edit, fetched, intact>>

ClearPlatformChannels(c) ==
    /\ up /\ pc[c] = "clear"
    /\ channels' = CustomOnly(channels)
    /\ default' = IF Mentions(channels', default) THEN default ELSE NoChannel
    /\ Goto(c, "idle")
    /\ Write(channels', default')
    /\ UNCHANGED <<keychain, account, edit, fetched>>

Next ==
    \/ Boot \/ ProcessEnds
    \/ StartEdit \/ StoreKeys \/ SaveCustomChannel \/ DeleteKeys \/ DeleteCustomChannel
    \/ SetDefaultModel \/ ReorderChannels \/ SetSetting
    \/ \E c \in Commands :
          \/ Login(c) \/ SyncPlatformChannels(c) \/ Fetch(c) \/ UpsertPlatformChannels(c)
          \/ Logout(c) \/ ClearPlatformChannels(c)

Spec == Init /\ [][Next]_vars

-----------------------------------------------------------------------------
TypeOK ==
    /\ up \in BOOLEAN /\ intact \in BOOLEAN
    /\ channels \in Seq(Channel) /\ file \in File /\ Proper(channels)
    /\ default \in Ids \cup {NoChannel}
    /\ keychain \in [Custom -> KeyLists \cup {NoKeys}]
    /\ account \in Accounts \cup {NoAccount}
    /\ edit \in {NoEdit} \cup [op : {"keys", "save", "delete_keys", "delete"}, id : Custom,
                             keys : KeyLists \cup {NoKeys}]
    /\ pc \in [Commands -> {"idle", "fetch", "upsert", "clear"}]
    /\ fetched \in [Commands -> {<<>>} \cup {<<a>> : a \in Accounts}]

(* The keychain has been changed for an edit of this channel, which has    *)
(* not yet been saved.                                                     *)
Between(id) == edit.id = id /\ (edit.op = "delete" \/ (edit.op = "save" /\ edit.keys # NoKeys))

(* The keychain has each channel's keys, but for the edit under way and,   *)
(* before the first start, for keys that an older build left in the file.  *)
KeysKept ==
    \A i \in DOMAIN channels : channels[i].id \in Custom =>
        \/ keychain[channels[i].id] = channels[i].keys
        \/ Between(channels[i].id)
        \/ ~ up /\ file.channels[i].keys # NoKeys

(* The file has the rest, and no keys but those of its channels. *)
FileKept ==
    IF file.form = "whole"
    THEN /\ default = file.default /\ Len(file.channels) = Len(channels)
         /\ \A i \in DOMAIN channels :
               /\ file.channels[i].id = channels[i].id /\ file.channels[i].type = channels[i].type
               /\ file.channels[i].keys \in {NoKeys, channels[i].keys}
    ELSE ~ up /\ channels = <<>> /\ default = NoChannel

(* An edit finds its channel, or an empty place in the keychain for it. *)
EditFits ==
    /\ edit.op = "keys" => edit.keys # NoKeys
    /\ edit.op = "save" /\ edit.keys # NoKeys => keychain[edit.id] = edit.keys
    /\ edit.op = "save" /\ edit.keys = NoKeys
          => Mentions(channels, edit.id) \/ keychain[edit.id] = NoKeys

(* Together the file and the keychain are the channels in memory, as long  *)
(* as both took what they were given and no edit was cut in two.           *)
ConfigInv ==
    /\ TypeOK /\ Proper(file.channels) /\ EditFits
    /\ file.form # "whole" => file.channels = <<>> /\ file.default = NoChannel
    /\ intact => KeysKept /\ FileKept /\ (up \/ edit = NoEdit)

(* The channels, their order, their keys and the default one survive a     *)
(* restart, whatever commands had interleaved, as long as the disk and the *)
(* keychain took what they were given and no edit was cut in two.          *)
KeepsChannels == ~up /\ up' /\ intact => channels' = channels /\ default' = default
RestartKeepsChannels == [][KeepsChannels]_vars

=============================================================================
