------------------------------ MODULE SoulStore ------------------------------
(***************************************************************************)
(* Personas of users (soul.rs, and soul_provider in host.rs).  The tool    *)
(* set_soul reads the record of its session's user, merges what it was     *)
(* given, and writes the record back.  The store is the plugin that offers *)
(* soul_get and soul_set, if one is loaded, or a directory of files; it is *)
(* looked up for the read and for the write.  Sessions of one user share   *)
(* a key.  One call of the store is one step; DurableFile has the writing  *)
(* of the file.                                                            *)
(***************************************************************************)
EXTENDS Integers

CONSTANTS Speakers,      \* sessions of one user, all with the same soul key
          Keyless,      \* the sessions without a user
          Personas,     \* persona texts
          Profiles,     \* configured llm_profiles
          UnknownProfile,
          MaxReloads    \* bound: reloads that load or unload the store plugin

Unset == "none"
Soul == [persona : Personas \cup {Unset}, profile : Profiles \cup {Unset}]
NoSoul == [persona |-> Unset, profile |-> Unset]   \* Soul::default
Keep == "keep"                                   \* the argument is left out

VARIABLES
    plugin,     \* whether a plugin with both nodes is loaded
    stored,     \* store -> the user's record
    call,       \* session -> the call of set_soul it is in
    reloads,
    soulAsked       \* history: per store, the fields as the last complete call
                \* that named them left them, or Keep when a call got in between

soulVars == <<plugin, stored, call, reloads, soulAsked>>

NoCall == [at |-> "idle", persona |-> Keep, profile |-> Keep, soul |-> NoSoul, store |-> "files",
           alone |-> TRUE]

SoulInit ==
    /\ plugin \in BOOLEAN
    /\ stored = [s \in {"files", "plugin"} |-> NoSoul]
    /\ call = [s \in Speakers |-> NoCall]
    /\ reloads = 0
    /\ soulAsked = [s \in {"files", "plugin"} |-> NoSoul]

\* soul_provider: resolved at every call.
Provider == IF plugin THEN "plugin" ELSE "files"

Busy(s) == call[s].at # "idle"

\* agent_set_soul up to the read: get_soul(...).unwrap_or_default(); the read
\* may fail.  A session without a user is refused.
SetSoul(s, persona, profile) ==
    /\ ~ Busy(s) /\ s \notin Keyless
    /\ call' = [t \in Speakers |->
                   IF t = s THEN [at |-> "merge", persona |-> persona, profile |-> profile,
                                  soul |-> stored[Provider], store |-> Provider,
                                  alone |-> \A u \in Speakers \ {s} : ~ Busy(u)]
                   ELSE [call[t] EXCEPT !.alone = FALSE]]
    /\ UNCHANGED <<plugin, stored, reloads, soulAsked>>

\* Mutant: the record is built from the arguments alone.
MergedFromArguments(c) == [persona |-> IF c.persona = Keep THEN Unset ELSE c.persona,
                           profile |-> IF c.profile = Keep THEN Unset ELSE c.profile]

\* An empty profile clears it (None is among the arguments).
Merged(c) == [persona |-> IF c.persona = Keep THEN c.soul.persona ELSE c.persona,
              profile |-> IF c.profile = Keep THEN c.soul.profile ELSE c.profile]

\* A profile that is not configured ends the call.
Refuse(s) ==
    /\ call[s].at = "merge" /\ call[s].profile = UnknownProfile
    /\ call' = [call EXCEPT ![s] = NoCall]
    /\ UNCHANGED <<plugin, stored, reloads, soulAsked>>

\* What the record should say after the call: a field that it named is what it
\* asked for, the others are as they were.
Told(c, was) == [persona |-> IF c.persona = Keep THEN was.persona ELSE c.persona,
                 profile |-> IF c.profile = Keep THEN was.profile ELSE c.profile]

\* set_soul; the write may fail.
WriteSoul(s) ==
    /\ call[s].at = "merge" /\ call[s].profile # UnknownProfile
    /\ \/ /\ stored' = [stored EXCEPT ![Provider] = Merged(call[s])]
          /\ soulAsked' = [soulAsked EXCEPT ![Provider] =
                          IF call[s].alone /\ call[s].store = Provider
                          THEN Told(call[s], @) ELSE Merged(call[s])]
       \/ UNCHANGED <<stored, soulAsked>>
    /\ call' = [call EXCEPT ![s] = NoCall]
    /\ UNCHANGED <<plugin, reloads>>

\* A reload brings or drops the plugin.
ReloadStore ==
    /\ reloads < MaxReloads
    /\ plugin' = ~ plugin /\ reloads' = reloads + 1
    /\ UNCHANGED <<stored, call, soulAsked>>

SoulNext ==
    \/ \E s \in Speakers :
         \/ \E persona \in Personas \cup {Keep}, profile \in Profiles \cup {Unset, UnknownProfile, Keep} :
              SetSoul(s, persona, profile)
         \/ Refuse(s) \/ WriteSoul(s)
    \/ ReloadStore

SoulSpec == SoulInit /\ [][SoulNext]_soulVars

-----------------------------------------------------------------------------
\* "Setting only the profile doesn't wipe the persona (and vice versa)"
\* (agent.rs, agent_set_soul): calls that do not overlap leave every field as
\* the last call that named it asked, and a stored profile is a configured one.
FieldsKept ==
    /\ \A store \in {"files", "plugin"} : stored[store] = soulAsked[store]
    /\ \A store \in {"files", "plugin"} : stored[store] \in Soul

=============================================================================
