------------------------------ MODULE TopicFilter ------------------------------
(***************************************************************************)
(* The Topic() flood filter on top of the core: BYOND asks TopicFloodCheck *)
(* whether to ignore a topic, the core's hook asks the filter when one is  *)
(* installed, and the filter remembers, bans and calls back into DM.       *)
(* Time is kept as ages: the ticks since an address was last accepted,     *)
(* counted up to the window of the filter.                                 *)
(***************************************************************************)
EXTENDS CoreHooks

CONSTANTS
  Addresses,  (* the addresses topics come from.                             *)
  Localhost,  (* the one that is always accepted.                            *)
  Window,     (* the window (50 ms in the code) in ticks.                    *)
  Lists       (* what the two files of the configuration may hold.           *)

ASSUME FilterAssumption ==
  Localhost \in Addresses /\ Window \in Nat \ {0} /\ Lists \subseteq SUBSET Addresses

Never == Window + 1  \* the age of an address that last_packets does not hold

VARIABLES
  current_topic_filter,  (* TRUE: hTopicFloodCheck asks flood_topic_filter.  *)
  blacklist, whitelist,
  last_packets,          (* address -> ticks since it was accepted, or Never.*)
  ban_callback,          (* the world whose proc the pointer names, or 0.    *)
  answer,                (* the last topic: its address, whether the filter  *)
                         (* was asked and what BYOND was told, and the world *)
                         (* of the callback that was called, or 0.           *)
  quiet,                 (* history: ticks since the filter accepted it.     *)
  hasty,                 (* history: addresses not exempt that it accepted   *)
                         (* again within the window.                         *)
  banned                 (* history: how often it was banned this session.   *)

filterVars == <<current_topic_filter, blacklist, whitelist, last_packets,
                ban_callback, answer, quiet, hasty, banned>>
vars == <<coreVars, filterVars>>

NoTopic == [addr |-> Localhost, asked |-> FALSE, accepted |-> TRUE, called |-> 0]

FilterInit ==
  /\ current_topic_filter = FALSE
  /\ blacklist = {} /\ whitelist = {}
  /\ last_packets = [a \in Addresses |-> Never]
  /\ ban_callback = 0
  /\ answer = NoTopic
  /\ quiet = [a \in Addresses |-> Window]
  /\ hasty = {}
  /\ banned = [a \in Addresses |-> 0]

\* install_flood_topic_filter: the core is initialised, the lists are read
\* again and the memory of the filter is wiped; the callback's proc may or
\* may not be found.
Install ==
  /\ initialized' = TRUE
  /\ procs' = IF initialized THEN procs ELSE life
  /\ SetTable(CoreTable)
  /\ ban_callback' \in {0, procs'}
  /\ current_topic_filter' = TRUE
  /\ blacklist' \in Lists /\ whitelist' \in Lists
  /\ last_packets' = [a \in Addresses |-> Never]
  /\ answer' = NoTopic
  /\ quiet' = [a \in Addresses |-> Window]
  /\ hasty' = {}
  /\ banned' = [a \in Addresses |-> 0]
  /\ UNCHANGED <<debugger_initialized, opcodeVars, proc_hooks, bytecode, life>>

Exempt(a) == a = Localhost \/ a \in whitelist

Answer(a, accepted, called) ==
  answer' = [addr |-> a, asked |-> TRUE, accepted |-> accepted, called |-> called]

Accept(a) ==
  /\ Answer(a, TRUE, 0)
  /\ quiet' = [quiet EXCEPT ![a] = 0]
  /\ hasty' = IF quiet[a] < Window /\ ~ Exempt(a) THEN hasty \cup {a} ELSE hasty
  /\ UNCHANGED <<blacklist, banned>>

Denied(a) ==
  /\ a \in blacklist
  /\ Answer(a, FALSE, 0)
  /\ UNCHANGED <<blacklist, last_packets, quiet, hasty, banned>>

Exempted(a) ==
  /\ a \notin blacklist /\ Exempt(a)
  /\ Accept(a)
  /\ UNCHANGED last_packets

TooSoon(a) == last_packets[a] < Window

\* Mutant: the address is not put on the blacklist.
NotListed(a) == blacklist

Blacklisted(a) == blacklist \cup {a}

Banned(a) ==
  /\ a \notin blacklist /\ ~ Exempt(a) /\ TooSoon(a)
  /\ blacklist' = Blacklisted(a)
  /\ last_packets' = [last_packets EXCEPT ![a] = Never]
  /\ banned' = [banned EXCEPT ![a] = @ + 1]
  /\ Answer(a, FALSE, ban_callback)
  /\ UNCHANGED <<quiet, hasty>>

\* Mutant: the time of the first topic is kept.
FirstTimeKept(a) ==
  [last_packets EXCEPT ![a] = IF last_packets[a] = Never THEN 0 ELSE @]

Refreshed(a) == [last_packets EXCEPT ![a] = 0]

Accepted(a) ==
  /\ a \notin blacklist /\ ~ Exempt(a) /\ ~ TooSoon(a)
  /\ last_packets' = Refreshed(a)
  /\ Accept(a)

\* hTopicFloodCheck, when BYOND's function still enters it.
Topic(a) ==
  /\ code["TopicFloodCheck"] = "core" /\ current_topic_filter
  /\ Denied(a) \/ Exempted(a) \/ Banned(a) \/ Accepted(a)
  /\ UNCHANGED <<coreVars, current_topic_filter, whitelist, ban_callback>>

\* Without hook or filter BYOND's own check answers; external.
UnfilteredTopic(a) ==
  /\ code["TopicFloodCheck"] # "core" \/ ~ current_topic_filter
  /\ \E ok \in BOOLEAN :
        answer' = [addr |-> a, asked |-> FALSE, accepted |-> ok, called |-> 0]
  /\ UNCHANGED <<coreVars, current_topic_filter, blacklist, whitelist,
                 last_packets, ban_callback, quiet, hasty, banned>>

\* Time passes; environment.
Tick ==
  /\ last_packets' = [a \in Addresses |->
                        IF last_packets[a] < Window THEN last_packets[a] + 1
                                                    ELSE last_packets[a]]
  /\ quiet' = [a \in Addresses |-> IF quiet[a] < Window THEN quiet[a] + 1 ELSE quiet[a]]
  /\ UNCHANGED <<coreVars, current_topic_filter, blacklist, whitelist,
                 ban_callback, answer, hasty, banned>>

\* Nothing of the filter is reset by the core's steps, cleanup included.
Core == CoreNext /\ UNCHANGED filterVars

Next ==
  \/ Core
  \/ Install
  \/ \E a \in Addresses : Topic(a) \/ UnfilteredTopic(a)
  \/ Tick

Spec == Init /\ FilterInit /\ [][Next]_vars
--------------------------------------------------------------------------------
TypeOK ==
  /\ CoreTypeOK
  /\ current_topic_filter \in BOOLEAN
  /\ blacklist \subseteq Addresses /\ whitelist \subseteq Addresses
  /\ last_packets \in [Addresses -> 0 .. Never]
  /\ ban_callback \in 0 .. MaxLives
  /\ answer \in [addr : Addresses, asked : BOOLEAN, accepted : BOOLEAN, called : 0 .. MaxLives]
  /\ quiet \in [Addresses -> 0 .. Window]
  /\ hasty \subseteq Addresses
  /\ banned \in [Addresses -> Nat]

\* Two topics of one address that the filter accepts are a window apart,
\* whatever happened between them, worlds and cleanups included, unless the
\* address is exempt or the filter was installed again.
AcceptedApart == hasty = {}

\* An address is banned, and the callback called, once per session of the
\* filter, and never when it is exempt; once banned nothing of it is accepted
\* while the filter is asked.
BannedOnce ==
  \A a \in Addresses : banned[a] > 0 =>
     /\ banned[a] = 1
     /\ ~ Exempt(a)
     /\ answer.asked /\ answer.addr = a => ~ answer.accepted
================================================================================
