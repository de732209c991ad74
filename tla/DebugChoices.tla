---------------------------- MODULE DebugChoices ----------------------------
(***************************************************************************)
(* DebugSettings for one guild: the choice stored in guild:{id}:config, the     *)
(* copy every reply reads, and the operations that carry one to the other.       *)
(* hydrate() runs at every on_ready and reads Redis before it applies; -debug    *)
(* toggles, one at a time per guild (max_concurrency); forget() runs when the    *)
(* bot is removed.                                                           *)
(*                                                                         *)
(* A Redis command may fail, or land without its reply.                        *)
(***************************************************************************)
EXTENDS Naturals

CONSTANTS
    Hydrations,   \* hydrate() passes, each one on_ready or cog_load
    MaxToggles,   \* bound: -debug --enable and --disable
    MaxRemovals   \* bound: times the bot is removed from the guild

ASSUME DebugAssumption == MaxToggles \in Nat /\ MaxRemovals \in Nat

Unset == "unset"
Choices == {"on", "off"}
Nothing == "nothing"

VARIABLES
    config,      \* debug_mode of guild:{id}:config
    override,    \* _overrides[guild]
    toggleSeq,   \* _toggle_seq
    toggledAt,   \* _toggled_at[guild], 0 if absent
    unpersisted, \* the guild is in _unpersisted
    pass,        \* [Hydrations -> the await it is parked at, `started`, what was read]
    toggling,    \* the -debug command under way: where it is and its choice
    member,      \* the bot is in the guild
    forgetting,  \* forget() waits for its DEL
    removals,
    told,        \* history: the last toggle's choice and what its user was told
    straddled    \* history: a pass or a toggle was under way when the bot was removed

debugVars == <<config, override, toggleSeq, toggledAt, unpersisted, pass, toggling, member,
               forgetting, removals, told, straddled>>

NoToggle == [at |-> "none", choice |-> Unset]
NothingTold == [choice |-> Unset, saved |-> TRUE]

DebugInit ==
    /\ config \in Choices \cup {Unset}
    /\ override = Unset
    /\ toggleSeq = 0 /\ toggledAt = 0
    /\ unpersisted = FALSE
    /\ pass = [h \in Hydrations |-> [at |-> "new", started |-> 0, read |-> Nothing]]
    /\ toggling = NoToggle
    /\ member = TRUE /\ forgetting = FALSE /\ removals = 0
    /\ told = NothingTold
    /\ straddled = FALSE

\* hydrate(), up to its read; bot.guilds names the guilds of now.
HydrateStarts(h) ==
    /\ pass[h].at = "new"
    /\ member
    /\ pass' = [pass EXCEPT ![h] = [at |-> "reading", started |-> toggleSeq, read |-> Nothing]]
    /\ UNCHANGED <<config, override, toggleSeq, toggledAt, unpersisted, toggling, member,
                   forgetting, removals, told, straddled>>

\* read_guild_configs(): a guild whose read failed is left out.
HydrateReads(h) ==
    /\ pass[h].at = "reading"
    /\ \E v \in {config, Nothing} : pass' = [pass EXCEPT ![h].at = "applying", ![h].read = v]
    /\ UNCHANGED <<config, override, toggleSeq, toggledAt, unpersisted, toggling, member,
                   forgetting, removals, told, straddled>>

\* A seeded mistake: what changed during the read is not looked at.
SkipsFailed(h) == pass[h].read = Nothing

\* A seeded mistake: what could not be read is applied.
SkipsToggled(h) == toggledAt > pass[h].started

\* The two rules that make replaying hydrate() safe.
Skips(h) == pass[h].read = Nothing \/ toggledAt > pass[h].started

\* What was read replaces the cached choice; a guild that never chose is not cached.
HydrateApplies(h) ==
    /\ pass[h].at = "applying"
    /\ pass' = [pass EXCEPT ![h] = [at |-> "done", started |-> 0, read |-> Nothing]]
    /\ IF Skips(h)
       THEN UNCHANGED <<override, unpersisted>>
       ELSE /\ override' = pass[h].read
            /\ unpersisted' = (unpersisted /\ pass[h].read = Unset)
    /\ UNCHANGED <<config, toggleSeq, toggledAt, toggling, member, forgetting, removals, told,
                   straddled>>

\* toggle() issues its write, set_debug_mode().
ToggleStarts ==
    /\ toggling.at = "none"
    /\ member
    /\ toggleSeq < MaxToggles
    /\ \E v \in Choices : toggling' = [at |-> "writing", choice |-> v]
    /\ UNCHANGED <<config, override, toggleSeq, toggledAt, unpersisted, pass, member,
                   forgetting, removals, told, straddled>>

\* The write lands or fails; its reply may be lost.
ToggleWrites ==
    /\ toggling.at = "writing"
    /\ \/ config' = toggling.choice /\ toggling' = [toggling EXCEPT !.at = "landed"]
       \/ config' \in {config, toggling.choice} /\ toggling' = [toggling EXCEPT !.at = "failed"]
    /\ UNCHANGED <<override, toggleSeq, toggledAt, unpersisted, pass, member, forgetting,
                   removals, told, straddled>>

\* A seeded mistake: the user is told that it was saved, whatever became of the write.
ToggleClaims ==
    /\ toggling.at \in {"landed", "failed"}
    /\ override' = toggling.choice
    /\ toggleSeq' = toggleSeq + 1 /\ toggledAt' = toggleSeq'
    /\ unpersisted' = FALSE
    /\ told' = [choice |-> toggling.choice, saved |-> TRUE]
    /\ toggling' = NoToggle
    /\ UNCHANGED <<config, pass, member, forgetting, removals, straddled>>

\* The rest of toggle(): the cache second, the stamp, and whether the choice was saved.
ToggleEnds ==
    /\ toggling.at \in {"landed", "failed"}
    /\ override' = toggling.choice
    /\ toggleSeq' = toggleSeq + 1 /\ toggledAt' = toggleSeq'
    /\ unpersisted' = (toggling.at = "failed")
    /\ told' = [choice |-> toggling.choice, saved |-> toggling.at = "landed"]
    /\ toggling' = NoToggle
    /\ UNCHANGED <<config, pass, member, forgetting, removals, straddled>>

\* forget(), up to its DEL.
Removed ==
    /\ member
    /\ removals < MaxRemovals
    /\ removals' = removals + 1
    /\ member' = FALSE
    /\ forgetting' = TRUE
    /\ override' = Unset /\ toggledAt' = 0 /\ unpersisted' = FALSE
    /\ told' = NothingTold
    /\ straddled' = (straddled \/ toggling.at # "none"
                       \/ \E h \in Hydrations : pass[h].at \in {"reading", "applying"})
    /\ UNCHANGED <<config, toggleSeq, pass, toggling>>

\* clear_config(), which may fail.
ForgetEnds ==
    /\ forgetting
    /\ forgetting' = FALSE
    /\ config' \in {config, Unset}
    /\ UNCHANGED <<override, toggleSeq, toggledAt, unpersisted, pass, toggling, member,
                   removals, told, straddled>>

\* The bot is invited again.
Readded ==
    /\ ~member /\ ~forgetting
    /\ member' = TRUE
    /\ UNCHANGED <<config, override, toggleSeq, toggledAt, unpersisted, pass, toggling,
                   forgetting, removals, told, straddled>>

DebugNext ==
    \/ \E h \in Hydrations : HydrateStarts(h) \/ HydrateReads(h) \/ HydrateApplies(h)
    \/ ToggleStarts \/ ToggleWrites \/ ToggleEnds
    \/ Removed \/ ForgetEnds \/ Readded

DebugSpec == DebugInit /\ [][DebugNext]_debugVars

-----------------------------------------------------------------------------
(* Properties.                                                             *)

\* Each variable has its type; a stamp is never newer than the counter it was taken from.
DebugTypeOK ==
    /\ config \in Choices \cup {Unset} /\ override \in Choices \cup {Unset}
    /\ toggleSeq \in 0 .. MaxToggles /\ toggledAt \in 0 .. toggleSeq
    /\ unpersisted \in BOOLEAN /\ member \in BOOLEAN /\ forgetting \in BOOLEAN
    /\ pass \in [Hydrations -> [at : {"new", "reading", "applying", "done"},
                                started : 0 .. toggleSeq,
                                read : Choices \cup {Unset, Nothing}]]
    /\ toggling \in [at : {"none", "writing", "landed", "failed"}, choice : Choices \cup {Unset}]
    /\ removals \in 0 .. MaxRemovals
    /\ straddled \in BOOLEAN

\* A choice its user was told is saved stays the one in force until the next -debug
\* toggle, however many hydrations read before it and apply after it, or fail to read.
SavedChoiceInForce ==
    toggling.at = "none" /\ told # NothingTold /\ told.saved /\ ~straddled =>
        override = told.choice /\ config = told.choice

\* A cached choice that Redis does not hold is reported as one for this session only.
CacheOwnsUp ==
    toggling.at = "none" /\ ~straddled /\ override # Unset /\ override # config => unpersisted

\* What the cache of choices promises: what was saved is in force, what is not saved is
\* said not to be.
ChoicesSound == SavedChoiceInForce /\ CacheOwnsUp

\* The reply to a toggle that was not saved: it applies until the bot restarts.
UnsavedChoiceLasts ==
    toggling.at = "none" /\ ~told.saved /\ ~straddled => override = told.choice
=============================================================================
