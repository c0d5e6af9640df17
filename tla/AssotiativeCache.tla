-------------------------- MODULE AssotiativeCache --------------------------
(***************************************************************************)
(* The set associative cache of include/besm-666/util, a template that is  *)
(* meant for a TLB.  Every set has a counter that names its next victim.   *)
(*                                                                         *)
(* A client adds payloads, or it asks find() for the entry of a tag and    *)
(* works on the reference that it gets: on a miss that is the victim,      *)
(* which the client may fill and then pass over with incCounter.  The      *)
(* reference stays usable while other calls change the cache.              *)
(***************************************************************************)
EXTENDS Integers, Sequences

CONSTANTS
  ways, sets,
  Tags, Payloads,
  TagFunc,     (* payload -> its tag                                       *)
  HashFunc,    (* tag -> its set                                           *)
  MaxCounter   (* bound: clients do not move a counter further             *)

Sets == 0 .. sets - 1

Slots == 0 .. ways * sets - 1

ASSUME AssotiativeConstants ==
  /\ ways \in Nat \ {0}
  /\ sets \in Nat \ {0}
  /\ TagFunc \in [Payloads -> Tags]
  /\ HashFunc \in [Tags -> Sets]
  /\ "none" \notin Tags
  /\ MaxCounter \in Nat /\ ways <= MaxCounter

VARIABLES
  cachedData,  (* slot -> CacheEntry                                       *)
  counters,    (* set -> the way of the next victim                        *)
  ref,         (* the entry that find() returned last, and for which tag   *)
  outside,     (* an entry behind the array was used: anything may follow  *)
  spilled,     (* history: some counter was moved behind its set           *)
  given,       (* history: tag -> payloads given since its invalidation    *)
  recent       (* history: set -> the tags of the last `ways' additions,   *)
               (* since the client last wrote to the set by other means    *)

acVars == <<cachedData, counters, ref, outside, spilled, given, recent>>

NoPayload == "none"

NoTag == "none"

(* The constructor of CacheEntry, and what setPayload makes of an entry.   *)
EmptyEntry == [payload |-> NoPayload, tag |-> NoTag, valid |-> FALSE]

Filled(p, t) == [payload |-> p, tag |-> t, valid |-> TRUE]

Entries == [payload : Payloads \cup {NoPayload}, tag : Tags \cup {NoTag}, valid : BOOLEAN]

NoRef == [slot |-> 0, tag |-> NoTag]

-----------------------------------------------------------------------------
SetSlots(h) == h * ways .. h * ways + ways - 1

(* The entries of a set that find and invalidate take for those of tag t.  *)
Copies(t) ==
  {s \in SetSlots(HashFunc[t]) : cachedData[s].valid /\ cachedData[s].tag = t}

(* Mutant of Victim: the counter is taken as a slot.                       *)
VictimWithoutSet(h) == counters[h]

Victim(h) == h * ways + counters[h]

(* Mutants of Advance: the counter moves only when the set is full; it     *)
(* does not wrap around.                                                   *)
AdvanceWhenFull(h) ==
  counters' = IF \A s \in SetSlots(h) : cachedData[s].valid
              THEN [counters EXCEPT ![h] = (@ + 1) % ways] ELSE counters

AdvanceUnwrapped(h) == counters' = [counters EXCEPT ![h] = @ + 1]

Advance(h) == counters' = [counters EXCEPT ![h] = (@ + 1) % ways]

(* The sets that hold slot s. *)
Around(s) == {h \in Sets : s \in SetSlots(h)}

Forget(hs) == [h \in Sets |-> IF h \in hs THEN <<>> ELSE recent[h]]

Latest(seq) == IF Len(seq) > ways THEN Tail(seq) ELSE seq

(* CacheEntry::setPayload on the entry at s; behind the array the program  *)
(* has no defined behaviour any more.                                      *)
Put(s, p) ==
  /\ cachedData' = IF s \in Slots
                   THEN [cachedData EXCEPT ![s] = Filled(p, TagFunc[p])] ELSE cachedData
  /\ outside' = (s \notin Slots)
  /\ given' = [given EXCEPT ![TagFunc[p]] = @ \cup {p}]

-----------------------------------------------------------------------------
(* Cache::add; it does not look for an older payload with the same tag.    *)
add(p) ==
  LET h == HashFunc[TagFunc[p]]
      s == Victim(h)
  IN  /\ ~outside
      /\ Put(s, p)
      /\ Advance(h)
      /\ recent' = IF counters[h] < ways
                   THEN [recent EXCEPT ![h] = Latest(Append(@, TagFunc[p]))]
                   ELSE Forget(Around(s) \cup {h})
      /\ UNCHANGED <<ref, spilled>>

(* Cache::find; the client looks at the entry it gets. *)
find(t) ==
  /\ ~outside
  /\ \E s \in IF Copies(t) = {} THEN {Victim(HashFunc[t])} ELSE Copies(t) :
       /\ \A c \in Copies(t) : s <= c
       /\ outside' = (s \notin Slots)
       /\ ref' = IF s \in Slots THEN [slot |-> s, tag |-> t] ELSE ref
  /\ UNCHANGED <<cachedData, counters, spilled, given, recent>>

(* CacheEntry::setPayload through the reference, or a write to getPayload()*)
(* and setTag.                                                             *)
fill(p) ==
  /\ ~outside /\ ref # NoRef /\ TagFunc[p] = ref.tag
  /\ Put(ref.slot, p)
  /\ recent' = Forget(Around(ref.slot))
  /\ UNCHANGED <<counters, ref, spilled>>

(* CacheEntry::invalidate through the reference. *)
drop ==
  /\ ~outside /\ ref # NoRef
  /\ cachedData' = [cachedData EXCEPT ![ref.slot].valid = FALSE]
  /\ recent' = Forget(Around(ref.slot))
  /\ UNCHANGED <<counters, ref, outside, spilled, given>>

(* Mutant of Invalidated: the loop ends at the first entry of the tag.     *)
InvalidatedFirst(t) == {s \in Copies(t) : \A c \in Copies(t) : s <= c}

Invalidated(t) == Copies(t)

(* Cache::invalidate(tag); the place of the tag in the order of the set    *)
(* stays taken.                                                            *)
invalidate(t) ==
  /\ ~outside
  /\ cachedData' = [s \in Slots |-> IF s \in Invalidated(t)
                                    THEN [cachedData[s] EXCEPT !.valid = FALSE]
                                    ELSE cachedData[s]]
  /\ given' = [given EXCEPT ![t] = {}]
  /\ recent' = [h \in Sets |-> [i \in DOMAIN recent[h] |->
                                  IF recent[h][i] = t THEN NoTag ELSE recent[h][i]]]
  /\ UNCHANGED <<counters, ref, outside, spilled>>

(* Cache::invalidate(); the counters stay. *)
invalidateAll ==
  /\ ~outside
  /\ cachedData' = [s \in Slots |-> [cachedData[s] EXCEPT !.valid = FALSE]]
  /\ given' = [t \in Tags |-> {}]
  /\ recent' = Forget(Sets)
  /\ UNCHANGED <<counters, ref, outside, spilled>>

(* Cache::incCounter does not wrap around. *)
incCounter(t) ==
  LET h == HashFunc[t] IN
  /\ ~outside /\ counters[h] < MaxCounter
  /\ counters' = [counters EXCEPT ![h] = @ + 1]
  /\ spilled' = (spilled \/ counters[h] + 1 >= ways)
  /\ recent' = Forget({h})
  /\ UNCHANGED <<cachedData, ref, outside, given>>

ACInit ==
  /\ cachedData = [s \in Slots |-> EmptyEntry]
  /\ counters = [h \in Sets |-> 0]
  /\ ref = NoRef
  /\ outside = FALSE
  /\ spilled = FALSE
  /\ given = [t \in Tags |-> {}]
  /\ recent = [h \in Sets |-> <<>>]

ACNext ==
  \/ \E p \in Payloads : add(p) \/ fill(p)
  \/ \E t \in Tags : find(t) \/ invalidate(t) \/ incCounter(t)
  \/ drop
  \/ invalidateAll

ACSpec == ACInit /\ [][ACNext]_acVars

-----------------------------------------------------------------------------
(* Type invariant. *)
ACTypeOK ==
  /\ cachedData \in [Slots -> Entries]
  /\ counters \in [Sets -> 0 .. MaxCounter]
  /\ ref \in [slot : Slots, tag : Tags \cup {NoTag}]
  /\ outside \in BOOLEAN
  /\ spilled \in BOOLEAN
  /\ given \in [Tags -> SUBSET Payloads]

(* A hit never brings back what was invalidated, and never shows a payload *)
(* of another tag: it is one of the payloads the client gave for the tag   *)
(* since it last invalidated that tag, although additions leave older      *)
(* copies behind, stale references overwrite entries and incCounter lets   *)
(* payloads spill into other sets.                                         *)
HitsAreGiven == \A t \in Tags : \A s \in Copies(t) : cachedData[s].payload \in given[t]

(* The last `ways' additions to a set are found, invalidated ones apart:   *)
(* additions evict in the order of arrival, in their own set only, also    *)
(* when the counter starts in the middle of the set or duplicates pass by. *)
RecentIsFound ==
  ~outside =>
    \A h \in Sets : \A i \in DOMAIN recent[h] :
      recent[h][i] # NoTag => Copies(recent[h][i]) # {}

(* Only incCounter breaks the partition into sets: before it has moved a   *)
(* counter behind its set, valid entries lie in the set of their tag,      *)
(* those written through old references too, and no access leaves the      *)
(* array.                                                                  *)
TagsInTheirSet ==
  ~spilled =>
    /\ ~outside
    /\ \A s \in Slots : cachedData[s].valid => s \in SetSlots(HashFunc[cachedData[s].tag])
=============================================================================
