----------------------- MODULE AssotiativeCacheProofs -----------------------
(***************************************************************************)
(* Theorems about the associative cache, for every geometry, every set of  *)
(* payloads and every tag and hash function.                               *)
(***************************************************************************)
EXTENDS AssotiativeCache, TLAPS

USE DEF NoTag, NoPayload

(* A set lies inside the array.                                            *)
LEMMA SetsInside ==
  ASSUME NEW h \in Sets
  PROVE  SetSlots(h) \subseteq Slots
<1>1. h * ways + ways <= ways * sets
  <2>1. h + 1 <= sets /\ h \in Nat /\ sets \in Nat /\ ways \in Nat
    BY AssotiativeConstants DEF Sets
  <2>2. (h + 1) * ways <= sets * ways
    BY <2>1
  <2>3. (h + 1) * ways = h * ways + ways
    BY <2>1
  <2>4. sets * ways = ways * sets
    BY <2>1
  <2> QED
    BY <2>2, <2>3, <2>4
<1> QED
  BY <1>1, AssotiativeConstants DEF SetSlots, Slots, Sets

(* find and invalidate look at entries of the array only.                  *)
LEMMA CopiesInside ==
  ASSUME NEW t \in Tags
  PROVE  /\ Copies(t) \subseteq SetSlots(HashFunc[t])
         /\ SetSlots(HashFunc[t]) \subseteq Slots
BY SetsInside, AssotiativeConstants DEF Copies

(* The counter that add leaves behind names a way of the set.              *)
LEMMA Wrapped ==
  ASSUME NEW c \in Nat
  PROVE  (c + 1) % ways \in 0 .. ways - 1
BY AssotiativeConstants

-----------------------------------------------------------------------------
LEMMA TypingInit == ACInit => ACTypeOK
<1>1. 0 \in Sets /\ 0 * ways = 0 /\ ways \in Nat \ {0} /\ MaxCounter \in Nat
  BY AssotiativeConstants DEF Sets
<1>2. 0 \in SetSlots(0)
  BY <1>1 DEF SetSlots
<1>3. NoRef \in [slot : Slots, tag : Tags \cup {NoTag}]
  BY <1>1, <1>2, SetsInside DEF NoRef
<1>4. EmptyEntry \in Entries
  BY DEF EmptyEntry, Entries
<1>5. ACInit => /\ cachedData \in [Slots -> Entries]
                /\ counters \in [Sets -> 0 .. MaxCounter]
                /\ given \in [Tags -> SUBSET Payloads]
  BY <1>1, <1>4 DEF ACInit
<1> QED
  BY <1>3, <1>5 DEF ACInit, ACTypeOK

LEMMA InvalidTyped ==
  ASSUME NEW e \in Entries
  PROVE  [e EXCEPT !.valid = FALSE] \in Entries
BY DEF Entries

LEMMA PutTyping ==
  ASSUME ACTypeOK, NEW p \in Payloads, NEW s, Put(s, p)
  PROVE  /\ cachedData' \in [Slots -> Entries]
         /\ outside' \in BOOLEAN
         /\ given' \in [Tags -> SUBSET Payloads]
<1>1. TagFunc[p] \in Tags
  BY AssotiativeConstants
<1>2. Filled(p, TagFunc[p]) \in Entries
  BY <1>1 DEF Filled, Entries
<1> QED
  BY <1>1, <1>2 DEF Put, ACTypeOK

LEMMA TypingNext == ACTypeOK /\ [ACNext]_acVars => ACTypeOK'
<1> SUFFICES ASSUME ACTypeOK, [ACNext]_acVars PROVE ACTypeOK'
  OBVIOUS
<1>0. HashFunc \in [Tags -> Sets] /\ TagFunc \in [Payloads -> Tags]
  BY AssotiativeConstants
<1>1. ASSUME NEW p \in Payloads, add(p) PROVE ACTypeOK'
  <2> DEFINE h == HashFunc[TagFunc[p]]
  <2>1. h \in Sets /\ counters[h] \in Nat
    BY <1>0 DEF ACTypeOK
  <2>2. (counters[h] + 1) % ways \in 0 .. MaxCounter
    BY <2>1, Wrapped, AssotiativeConstants
  <2>3. counters' \in [Sets -> 0 .. MaxCounter]
    BY <1>1, <2>1, <2>2 DEF add, Advance, ACTypeOK
  <2>4. Put(Victim(h), p) /\ UNCHANGED <<ref, spilled>>
    BY <1>1 DEF add
  <2> QED
    BY <2>3, <2>4, PutTyping DEF ACTypeOK
<1>2. ASSUME NEW p \in Payloads, fill(p) PROVE ACTypeOK'
  <2>1. Put(ref.slot, p) /\ UNCHANGED <<counters, ref, spilled>>
    BY <1>2 DEF fill
  <2> QED
    BY <2>1, PutTyping DEF ACTypeOK
<1>3. ASSUME NEW t \in Tags, find(t) PROVE ACTypeOK'
  <2>1. PICK s : /\ outside' = (s \notin Slots)
                 /\ ref' = IF s \in Slots THEN [slot |-> s, tag |-> t] ELSE ref
    BY <1>3 DEF find
  <2> QED
    BY <1>3, <2>1 DEF find, ACTypeOK
<1>4. ASSUME NEW t \in Tags, invalidate(t) PROVE ACTypeOK'
  <2>1. \A s \in Slots : [cachedData[s] EXCEPT !.valid = FALSE] \in Entries
    BY InvalidTyped DEF ACTypeOK
  <2> QED
    BY <1>4, <2>1 DEF invalidate, ACTypeOK
<1>5. ASSUME NEW t \in Tags, incCounter(t) PROVE ACTypeOK'
  BY <1>0, <1>5, AssotiativeConstants DEF incCounter, ACTypeOK
<1>6. ASSUME drop PROVE ACTypeOK'
  <2>1. ref.slot \in Slots /\ [cachedData[ref.slot] EXCEPT !.valid = FALSE] \in Entries
    BY InvalidTyped DEF ACTypeOK
  <2> QED
    BY <1>6, <2>1 DEF drop, ACTypeOK
<1>7. ASSUME invalidateAll PROVE ACTypeOK'
  <2>1. \A s \in Slots : [cachedData[s] EXCEPT !.valid = FALSE] \in Entries
    BY InvalidTyped DEF ACTypeOK
  <2> QED
    BY <1>7, <2>1 DEF invalidateAll, ACTypeOK
<1>8. ASSUME UNCHANGED acVars PROVE ACTypeOK'
  BY <1>8 DEF acVars, ACTypeOK
<1> QED
  BY <1>1, <1>2, <1>3, <1>4, <1>5, <1>6, <1>7, <1>8 DEF ACNext

(* The entries, counters and references of the cache keep their types.     *)
THEOREM ACTyping == ACSpec => []ACTypeOK
BY TypingInit, TypingNext, PTL DEF ACSpec

-----------------------------------------------------------------------------
LEMMA GivenInit == ACInit => HitsAreGiven
<1> SUFFICES ASSUME ACInit, NEW t \in Tags, NEW s \in Copies(t) PROVE FALSE
  BY DEF HitsAreGiven
<1>1. s \in Slots
  BY CopiesInside
<1> QED
  BY <1>1 DEF ACInit, Copies, EmptyEntry

(* Payloads that go to an entry are recorded under the entry's tag.        *)
LEMMA PutGiven ==
  ASSUME ACTypeOK, HitsAreGiven, NEW p \in Payloads, NEW s, Put(s, p)
  PROVE  HitsAreGiven'
<1> SUFFICES ASSUME NEW t \in Tags, NEW x \in Copies(t)'
             PROVE  (cachedData[x].payload \in given[t])'
  BY DEF HitsAreGiven
<1>1. x \in Slots /\ TagFunc[p] \in Tags
  <2>1. Copies(t)' \subseteq SetSlots(HashFunc[t])
    BY DEF Copies
  <2> QED
    BY <2>1, CopiesInside, AssotiativeConstants
<1>2. given[t] \subseteq given'[t]
  BY <1>1 DEF Put, ACTypeOK
<1>3. CASE x = s /\ s \in Slots
  <2>1. cachedData'[x] = Filled(p, TagFunc[p])
    BY <1>3 DEF Put, ACTypeOK
  <2>2. t = TagFunc[p]
    BY <2>1 DEF Copies, Filled
  <2>3. p \in given'[t]
    BY <1>1, <2>2 DEF Put, ACTypeOK
  <2> QED
    BY <2>1, <2>3 DEF Filled
<1>4. CASE ~(x = s /\ s \in Slots)
  <2>1. cachedData'[x] = cachedData[x]
    BY <1>1, <1>4 DEF Put, ACTypeOK
  <2>2. x \in Copies(t)
    BY <2>1 DEF Copies
  <2> QED
    BY <1>2, <2>1, <2>2 DEF HitsAreGiven
<1> QED
  BY <1>3, <1>4

(* Steps that validate no entry and forget no payload of a tag that has a  *)
(* valid entry.                                                            *)
LEMMA FewerGiven ==
  ASSUME HitsAreGiven,
         \A s \in Slots : cachedData'[s].valid => cachedData'[s] = cachedData[s],
         \A t \in Tags : Copies(t)' # {} => given'[t] = given[t]
  PROVE  HitsAreGiven'
<1> SUFFICES ASSUME NEW t \in Tags, NEW x \in Copies(t)'
             PROVE  (cachedData[x].payload \in given[t])'
  BY DEF HitsAreGiven
<1>1. x \in Slots
  <2>1. Copies(t)' \subseteq SetSlots(HashFunc[t])
    BY DEF Copies
  <2> QED
    BY <2>1, CopiesInside
<1>2. cachedData'[x] = cachedData[x]
  BY <1>1 DEF Copies
<1>3. x \in Copies(t)
  BY <1>2 DEF Copies
<1> QED
  BY <1>2, <1>3 DEF HitsAreGiven

LEMMA GivenNext == ACTypeOK /\ HitsAreGiven /\ [ACNext]_acVars => HitsAreGiven'
<1> SUFFICES ASSUME ACTypeOK, HitsAreGiven, [ACNext]_acVars PROVE HitsAreGiven'
  OBVIOUS
<1>1. ASSUME NEW p \in Payloads, add(p) PROVE HitsAreGiven'
  BY <1>1, PutGiven DEF add
<1>2. ASSUME NEW p \in Payloads, fill(p) PROVE HitsAreGiven'
  BY <1>2, PutGiven DEF fill
<1>3. ASSUME NEW t \in Tags, invalidate(t) PROVE HitsAreGiven'
  <2>1. \A s \in Slots : cachedData'[s].valid => cachedData'[s] = cachedData[s]
    BY <1>3 DEF invalidate, ACTypeOK, Entries
  <2>2. Copies(t)' = {}
    <3> SUFFICES ASSUME NEW x \in Copies(t)' PROVE FALSE
      OBVIOUS
    <3>1. x \in SetSlots(HashFunc[t]) /\ x \in Slots
      BY CopiesInside DEF Copies
    <3>2. cachedData'[x] = cachedData[x] /\ x \in Copies(t)
      BY <2>1, <3>1 DEF Copies
    <3> QED
      BY <1>3, <3>1, <3>2 DEF invalidate, Invalidated, Copies, ACTypeOK, Entries
  <2>3. \A u \in Tags : Copies(u)' # {} => given'[u] = given[u]
    BY <1>3, <2>2 DEF invalidate, ACTypeOK
  <2> QED
    BY <2>1, <2>3, FewerGiven
<1>4. ASSUME drop PROVE HitsAreGiven'
  <2>1. \A s \in Slots : cachedData'[s].valid => cachedData'[s] = cachedData[s]
    BY <1>4 DEF drop, ACTypeOK, Entries
  <2>2. given' = given
    BY <1>4 DEF drop
  <2> QED
    BY <2>1, <2>2, FewerGiven
<1>5. ASSUME invalidateAll PROVE HitsAreGiven'
  <2>1. \A s \in Slots : ~cachedData'[s].valid
    BY <1>5 DEF invalidateAll, ACTypeOK, Entries
  <2>2. \A t \in Tags : Copies(t)' = {}
    BY <2>1, CopiesInside DEF Copies
  <2> QED
    BY <2>1, <2>2, FewerGiven
<1>6. ASSUME UNCHANGED <<cachedData, given>> PROVE HitsAreGiven'
  BY <1>6, FewerGiven
<1> QED
  BY <1>1, <1>2, <1>3, <1>4, <1>5, <1>6 DEF ACNext, find, incCounter, acVars

(* No hit brings back an invalidated payload or shows one of another tag.  *)
THEOREM ACHitsAreGiven == ACSpec => []HitsAreGiven
<1>1. ACInit => ACTypeOK /\ HitsAreGiven
  BY TypingInit, GivenInit
<1>2. ACTypeOK /\ HitsAreGiven /\ [ACNext]_acVars => (ACTypeOK /\ HitsAreGiven)'
  BY TypingNext, GivenNext
<1> QED
  BY <1>1, <1>2, PTL DEF ACSpec

-----------------------------------------------------------------------------
(* Before a counter is moved behind its set, the counters name ways and    *)
(* the reference is to an entry of the set it was found in.                *)
Apart ==
  ~spilled =>
    /\ \A h \in Sets : counters[h] < ways
    /\ ref.tag \in Tags => ref.slot \in SetSlots(HashFunc[ref.tag])

ApartInv == ACTypeOK /\ Apart /\ TagsInTheirSet

LEMMA ApartInit == ACInit => ApartInv
<1> SUFFICES ASSUME ACInit PROVE ApartInv
  OBVIOUS
<1>1. Apart
  BY AssotiativeConstants DEF ACInit, Apart, NoRef
<1>2. TagsInTheirSet
  BY DEF ACInit, TagsInTheirSet, EmptyEntry
<1> QED
  BY <1>1, <1>2, TypingInit DEF ApartInv

(* A payload that goes to a slot of its set.                               *)
LEMMA PutInSet ==
  ASSUME ApartInv, NEW p \in Payloads, NEW s, Put(s, p), spilled' = spilled,
         ~spilled => s \in SetSlots(HashFunc[TagFunc[p]])
  PROVE  TagsInTheirSet'
<1> SUFFICES ASSUME ~spilled
             PROVE  /\ ~outside'
                    /\ \A x \in Slots : cachedData'[x].valid =>
                         x \in SetSlots(HashFunc[cachedData'[x].tag])
  BY DEF TagsInTheirSet
<1>1. s \in Slots
  BY SetsInside, AssotiativeConstants
<1>2. ~outside'
  BY <1>1 DEF Put
<1>3. ASSUME NEW x \in Slots, cachedData'[x].valid
      PROVE  x \in SetSlots(HashFunc[cachedData'[x].tag])
  <2>1. CASE x = s
    BY <1>1, <2>1 DEF Put, Filled, ApartInv, ACTypeOK
  <2>2. CASE x # s
    <3>1. cachedData'[x] = cachedData[x]
      BY <1>1, <2>2 DEF Put, ApartInv, ACTypeOK
    <3> QED
      BY <1>3, <3>1 DEF ApartInv, TagsInTheirSet
  <2> QED
    BY <2>1, <2>2
<1> QED
  BY <1>2, <1>3

(* Steps that only invalidate entries.                                     *)
LEMMA FewerInSet ==
  ASSUME TagsInTheirSet, outside' = outside, spilled' => spilled, spilled => spilled',
         \A s \in Slots : cachedData'[s].valid => cachedData'[s] = cachedData[s]
  PROVE  TagsInTheirSet'
BY DEF TagsInTheirSet

LEMMA ApartNext == ApartInv /\ [ACNext]_acVars => ApartInv'
<1> SUFFICES ASSUME ApartInv, [ACNext]_acVars PROVE (Apart /\ TagsInTheirSet)'
  BY TypingNext DEF ApartInv
<1> USE DEF ApartInv
<1>0. HashFunc \in [Tags -> Sets] /\ TagFunc \in [Payloads -> Tags]
  BY AssotiativeConstants
<1>1. ASSUME NEW p \in Payloads, add(p) PROVE (Apart /\ TagsInTheirSet)'
  <2> DEFINE h == HashFunc[TagFunc[p]]
  <2>1. h \in Sets /\ counters[h] \in Nat /\ h * ways \in Nat /\ ways \in Nat
    BY <1>0, AssotiativeConstants DEF ACTypeOK, Sets
  <2>2. Put(Victim(h), p) /\ Advance(h) /\ UNCHANGED <<ref, spilled>>
    BY <1>1 DEF add
  <2>3. ~spilled => Victim(h) \in SetSlots(h)
    BY <2>1 DEF Apart, Victim, SetSlots
  <2>4. TagsInTheirSet'
    BY <2>2, <2>3, PutInSet
  <2>5. (counters[h] + 1) % ways \in 0 .. ways - 1
    BY <2>1, Wrapped
  <2>6. ~spilled => \A g \in Sets : counters'[g] < ways
    BY <2>1, <2>2, <2>5 DEF Advance, Apart, ACTypeOK
  <2>7. Apart'
    BY <2>2, <2>6 DEF Apart
  <2> QED
    BY <2>4, <2>7
<1>2. ASSUME NEW p \in Payloads, fill(p) PROVE (Apart /\ TagsInTheirSet)'
  <2>1. Put(ref.slot, p) /\ UNCHANGED <<counters, ref, spilled>> /\ TagFunc[p] = ref.tag
    BY <1>2 DEF fill
  <2>2. ~spilled => ref.slot \in SetSlots(HashFunc[TagFunc[p]])
    BY <1>0, <2>1 DEF Apart
  <2>3. TagsInTheirSet'
    BY <2>1, <2>2, PutInSet
  <2>4. Apart'
    BY <2>1 DEF Apart
  <2> QED
    BY <2>3, <2>4
<1>3. ASSUME NEW t \in Tags, find(t) PROVE (Apart /\ TagsInTheirSet)'
  <2> DEFINE h == HashFunc[t]
  <2>1. PICK s \in IF Copies(t) = {} THEN {Victim(h)} ELSE Copies(t) :
          /\ outside' = (s \notin Slots)
          /\ ref' = IF s \in Slots THEN [slot |-> s, tag |-> t] ELSE ref
    BY <1>3 DEF find
  <2>2. UNCHANGED <<cachedData, counters, spilled>>
    BY <1>3 DEF find
  <2>3. h \in Sets /\ counters[h] \in Nat /\ h * ways \in Nat /\ ways \in Nat
    BY <1>0, AssotiativeConstants DEF ACTypeOK, Sets
  <2>4. ~spilled => Victim(h) \in SetSlots(h)
    BY <2>3 DEF Apart, Victim, SetSlots
  <2>5. ~spilled => s \in SetSlots(h) /\ s \in Slots
    BY <2>1, <2>3, <2>4, SetsInside DEF Copies
  <2>6. Apart'
    BY <2>1, <2>2, <2>5 DEF Apart
  <2>7. TagsInTheirSet'
    BY <2>1, <2>2, <2>5 DEF TagsInTheirSet
  <2> QED
    BY <2>6, <2>7
<1>4. ASSUME NEW t \in Tags, invalidate(t) PROVE (Apart /\ TagsInTheirSet)'
  <2>1. \A s \in Slots : cachedData'[s].valid => cachedData'[s] = cachedData[s]
    BY <1>4 DEF invalidate, ACTypeOK, Entries
  <2>2. UNCHANGED <<counters, ref, outside, spilled>>
    BY <1>4 DEF invalidate
  <2> QED
    BY <2>1, <2>2, FewerInSet DEF Apart
<1>5. ASSUME NEW t \in Tags, incCounter(t) PROVE (Apart /\ TagsInTheirSet)'
  <2> DEFINE h == HashFunc[t]
  <2>1. h \in Sets /\ counters[h] \in Nat /\ ways \in Nat
    BY <1>0, AssotiativeConstants DEF ACTypeOK
  <2>2. /\ counters' = [counters EXCEPT ![h] = @ + 1]
        /\ spilled' = (spilled \/ counters[h] + 1 >= ways)
        /\ UNCHANGED <<cachedData, ref, outside>>
    BY <1>5 DEF incCounter
  <2>3. ~spilled' => ~spilled /\ \A g \in Sets : counters'[g] < ways
    <3>1. ASSUME ~spilled' PROVE ~spilled /\ ~(counters[h] + 1 >= ways)
      BY <2>2, <3>1, Zenon
    <3>2. ASSUME ~spilled' PROVE \A g \in Sets : counters[g] < ways
      BY <3>1, <3>2, Zenon DEF Apart
    <3>3. ASSUME ~spilled' PROVE \A g \in Sets : counters'[g] < ways
      BY <2>1, <2>2, <3>1, <3>2, <3>3 DEF ACTypeOK
    <3> QED
      BY <3>1, <3>3
  <2>4. Apart'
    BY <2>2, <2>3 DEF Apart
  <2>5. TagsInTheirSet'
    BY <2>2, <2>3 DEF TagsInTheirSet
  <2> QED
    BY <2>4, <2>5
<1>6. ASSUME drop PROVE (Apart /\ TagsInTheirSet)'
  <2>1. \A s \in Slots : cachedData'[s].valid => cachedData'[s] = cachedData[s]
    BY <1>6 DEF drop, ACTypeOK, Entries
  <2>2. UNCHANGED <<counters, ref, outside, spilled>>
    BY <1>6 DEF drop
  <2> QED
    BY <2>1, <2>2, FewerInSet DEF Apart
<1>7. ASSUME invalidateAll PROVE (Apart /\ TagsInTheirSet)'
  <2>1. \A s \in Slots : cachedData'[s].valid => cachedData'[s] = cachedData[s]
    BY <1>7 DEF invalidateAll, ACTypeOK, Entries
  <2>2. UNCHANGED <<counters, ref, outside, spilled>>
    BY <1>7 DEF invalidateAll
  <2> QED
    BY <2>1, <2>2, FewerInSet DEF Apart
<1>8. ASSUME UNCHANGED acVars PROVE (Apart /\ TagsInTheirSet)'
  BY <1>8 DEF acVars, Apart, TagsInTheirSet
<1> QED
  BY <1>1, <1>2, <1>3, <1>4, <1>5, <1>6, <1>7, <1>8 DEF ACNext

(* Until incCounter moves a counter behind its set, tags stay in their     *)
(* sets and accesses in the array.                                         *)
THEOREM ACTagsInTheirSet == ACSpec => []TagsInTheirSet
<1>1. ApartInv => TagsInTheirSet
  BY DEF ApartInv
<1> QED
  BY <1>1, ApartInit, ApartNext, PTL DEF ACSpec

-----------------------------------------------------------------------------
(* The way of the i-th of the l latest additions to a set with counter c.  *)
WayOf(c, l, i) == IF c + i > l THEN c + i - l - 1 ELSE c + i - l - 1 + ways

(* The latest additions to a set lie one after another before its counter, *)
(* around the end of the set.                                              *)
InOrder(h) ==
  /\ Len(recent[h]) <= ways
  /\ Len(recent[h]) > 0 => counters[h] < ways
  /\ \A i \in 1 .. Len(recent[h]) : recent[h][i] # NoTag =>
       LET e == cachedData[h * ways + WayOf(counters[h], Len(recent[h]), i)] IN
       HashFunc[recent[h][i]] = h /\ e.valid /\ e.tag = recent[h][i]

RecentInv ==
  /\ recent \in [Sets -> Seq(Tags \cup {NoTag})]
  /\ ~outside => \A h \in Sets : InOrder(h)

(* Sets share no entry.                                                    *)
LEMMA SetsApart ==
  ASSUME NEW g \in Sets, NEW h \in Sets, g # h, NEW s \in SetSlots(g)
  PROVE  s \notin SetSlots(h)
<1>1. g \in Nat /\ h \in Nat /\ ways \in Nat
  BY AssotiativeConstants DEF Sets
<1>2. ASSUME NEW a \in Nat, NEW b \in Nat, a < b PROVE a * ways + ways <= b * ways
  <2>1. (a + 1) * ways <= b * ways
    BY <1>1, <1>2
  <2>2. (a + 1) * ways = a * ways + ways
    BY <1>1
  <2> QED
    BY <2>1, <2>2
<1>3. g * ways \in Nat /\ h * ways \in Nat
  BY <1>1
<1>4. g * ways + ways <= h * ways \/ h * ways + ways <= g * ways
  BY <1>1, <1>2
<1> QED
  BY <1>1, <1>3, <1>4 DEF SetSlots

LEMMA WayInSet ==
  ASSUME NEW h \in Sets, NEW c \in 0 .. ways - 1, NEW l \in 0 .. ways, NEW i \in 1 .. l
  PROVE  /\ WayOf(c, l, i) \in 0 .. ways - 1
         /\ h * ways + WayOf(c, l, i) \in SetSlots(h)
<1>1. WayOf(c, l, i) \in 0 .. ways - 1
  BY AssotiativeConstants DEF WayOf
<1>2. h * ways \in Nat /\ ways \in Nat
  BY AssotiativeConstants DEF Sets
<1> QED
  BY <1>1, <1>2 DEF SetSlots

(* Where an addition leaves the ones before it.                            *)
LEMMA WaysAfterAdd ==
  ASSUME NEW c \in 0 .. ways - 1
  PROVE  LET n == (c + 1) % ways IN
         /\ n \in 0 .. ways - 1
         /\ \A l \in 0 .. ways - 1 : /\ WayOf(n, l + 1, l + 1) = c
                                     /\ \A i \in 1 .. l : /\ WayOf(n, l + 1, i) = WayOf(c, l, i)
                                                          /\ WayOf(c, l, i) # c
         /\ WayOf(n, ways, ways) = c
         /\ \A i \in 1 .. ways - 1 : /\ WayOf(n, ways, i) = WayOf(c, ways, i + 1)
                                     /\ WayOf(c, ways, i + 1) # c
<1>1. ways \in Nat \ {0}
  BY AssotiativeConstants
<1>2. (c + 1) % ways = IF c + 1 = ways THEN 0 ELSE c + 1
  <2>1. CASE c + 1 = ways
    BY <1>1, <2>1
  <2>2. CASE c + 1 # ways
    BY <1>1, <2>2
  <2> QED
    BY <2>1, <2>2
<1> DEFINE n == (c + 1) % ways
<1>3. n = IF c + 1 = ways THEN 0 ELSE c + 1
  BY <1>2
<1> HIDE DEF n
<1>4. n \in 0 .. ways - 1
  BY <1>1, <1>3
<1>5. ASSUME NEW l \in 0 .. ways - 1
      PROVE  /\ WayOf(n, l + 1, l + 1) = c
             /\ \A i \in 1 .. l : WayOf(n, l + 1, i) = WayOf(c, l, i) /\ WayOf(c, l, i) # c
  BY <1>1, <1>3 DEF WayOf
<1>6. WayOf(n, ways, ways) = c
  BY <1>1, <1>3 DEF WayOf
<1>7. \A i \in 1 .. ways - 1 : /\ WayOf(n, ways, i) = WayOf(c, ways, i + 1)
                               /\ WayOf(c, ways, i + 1) # c
  BY <1>1, <1>3 DEF WayOf
<1> QED
  BY <1>4, <1>5, <1>6, <1>7 DEF n

LEMMA OrderOfNone == ASSUME NEW h, recent'[h] = <<>> PROVE InOrder(h)'
  BY AssotiativeConstants DEF InOrder

(* A set whose entries, counter and history stay is still in order.        *)
LEMMA OrderKept ==
  ASSUME ACTypeOK, RecentInv, NEW h \in Sets, InOrder(h),
         recent'[h] = recent[h], counters'[h] = counters[h],
         \A s \in SetSlots(h) : cachedData'[s] = cachedData[s]
  PROVE  InOrder(h)'
<1> DEFINE r == recent[h]
           Slot(i) == h * ways + WayOf(counters[h], Len(r), i)
<1>1. r \in Seq(Tags \cup {NoTag}) /\ Len(r) \in Nat /\ Len(r) <= ways
  BY DEF RecentInv, InOrder
<1>2. ASSUME NEW i \in 1 .. Len(r) PROVE Slot(i) \in SetSlots(h)
  <2>1. counters[h] < ways /\ counters[h] \in Nat
    BY <1>1 DEF InOrder, ACTypeOK
  <2>2. counters[h] \in 0 .. ways - 1 /\ Len(r) \in 0 .. ways
    BY <1>1, <2>1, AssotiativeConstants
  <2> QED
    BY <2>2, WayInSet
<1>3. ASSUME NEW i \in 1 .. Len(r), r[i] # NoTag
      PROVE  /\ HashFunc[r[i]] = h
             /\ cachedData'[Slot(i)].valid /\ cachedData'[Slot(i)].tag = r[i]
  <2>1. cachedData'[Slot(i)] = cachedData[Slot(i)]
    BY <1>2
  <2>2. HashFunc[r[i]] = h /\ cachedData[Slot(i)].valid /\ cachedData[Slot(i)].tag = r[i]
    BY <1>3 DEF InOrder
  <2> QED
    BY <2>1, <2>2
<1> QED
  BY <1>1, <1>3 DEF InOrder, WayOf

(* An addition in the order of its set goes behind the latest ones, over   *)
(* the oldest one if the set is full.                                      *)
LEMMA OrderAfterAdd ==
  ASSUME ACTypeOK, RecentInv, NEW p \in Payloads, add(p), NEW h, h = HashFunc[TagFunc[p]],
         counters[h] < ways, InOrder(h)
  PROVE  InOrder(h)'
<1> DEFINE c == counters[h]
           r == recent[h]
           l == Len(r)
           t == TagFunc[p]
           n == (c + 1) % ways
<1>1. h \in Sets /\ t \in Tags /\ ways \in Nat \ {0} /\ t # NoTag
  BY AssotiativeConstants
<1>2. c \in 0 .. ways - 1 /\ r \in Seq(Tags \cup {NoTag}) /\ l \in 0 .. ways
  <2>1. c \in Nat /\ r \in Seq(Tags \cup {NoTag})
    BY <1>1 DEF ACTypeOK, RecentInv
  <2>2. l \in Nat /\ l <= ways
    BY <2>1 DEF InOrder
  <2> QED
    BY <1>1, <2>1, <2>2
<1>3. h * ways + c \in Slots /\ h * ways \in Nat
  <2>1. h * ways \in Nat
    BY <1>1 DEF Sets
  <2>2. h * ways + c \in SetSlots(h)
    BY <1>1, <1>2, <2>1 DEF SetSlots
  <2> QED
    BY <1>1, <2>1, <2>2, SetsInside
<1>4. /\ cachedData' = [cachedData EXCEPT ![h * ways + c] = Filled(p, t)]
      /\ counters'[h] = n /\ recent'[h] = Latest(Append(r, t))
  <2>1. Put(h * ways + c, p) /\ Advance(h) /\ recent' = [recent EXCEPT ![h] = Latest(Append(@, t))]
    BY DEF add, Victim
  <2> QED
    BY <1>1, <1>3, <2>1 DEF Put, Advance, ACTypeOK, RecentInv
<1>5. /\ n \in 0 .. ways - 1
      /\ \A m \in 0 .. ways - 1 : /\ WayOf(n, m + 1, m + 1) = c
                                  /\ \A i \in 1 .. m : /\ WayOf(n, m + 1, i) = WayOf(c, m, i)
                                                       /\ WayOf(c, m, i) # c
      /\ WayOf(n, ways, ways) = c
      /\ \A i \in 1 .. ways - 1 : /\ WayOf(n, ways, i) = WayOf(c, ways, i + 1)
                                  /\ WayOf(c, ways, i + 1) # c
  BY <1>2, WaysAfterAdd
<1> HIDE DEF n, c, r, l, t
<1>6. /\ cachedData'[h * ways + c].valid /\ cachedData'[h * ways + c].tag = t
      /\ \A w \in 0 .. ways - 1 : w # c =>
           cachedData'[h * ways + w] = cachedData[h * ways + w]
  <2>1. cachedData'[h * ways + c] = Filled(p, t)
    BY <1>3, <1>4 DEF ACTypeOK
  <2>2. ASSUME NEW w \in 0 .. ways - 1, w # c
        PROVE  cachedData'[h * ways + w] = cachedData[h * ways + w]
    <3>1. h * ways + w # h * ways + c
      BY <1>1, <1>2, <1>3, <2>2
    <3>2. h * ways + w \in SetSlots(h)
      BY <1>1, <1>3 DEF SetSlots
    <3>3. h * ways + w \in Slots
      BY <1>1, <3>2, SetsInside
    <3> QED
      BY <1>4, <3>1, <3>3 DEF ACTypeOK
  <2> QED
    BY <2>1, <2>2 DEF Filled
<1>7. ASSUME NEW i \in 1 .. l, r[i] # NoTag, WayOf(c, l, i) # c
      PROVE  /\ HashFunc[r[i]] = h
             /\ cachedData'[h * ways + WayOf(c, l, i)].valid
             /\ cachedData'[h * ways + WayOf(c, l, i)].tag = r[i]
  <2> DEFINE w == WayOf(c, l, i)
  <2>1. w \in 0 .. ways - 1
    BY <1>1, <1>2, WayInSet
  <2>2. HashFunc[r[i]] = h /\ cachedData[h * ways + w].valid /\ cachedData[h * ways + w].tag = r[i]
    BY <1>7 DEF InOrder, c, l, r
  <2> HIDE DEF w
  <2>3. cachedData'[h * ways + w] = cachedData[h * ways + w]
    BY <1>6, <1>7, <2>1 DEF w
  <2> QED
    BY <2>2, <2>3 DEF w
<1>8. CASE l < ways
  <2>1. l \in 0 .. ways - 1
    BY <1>1, <1>2, <1>8
  <2>2. recent'[h] = Append(r, t)
    <3>1. Len(Append(r, t)) = l + 1
      BY <1>2 DEF l
    <3>2. ~(l + 1 > ways)
      BY <1>1, <2>1
    <3> QED
      BY <1>4, <3>1, <3>2 DEF Latest
  <2>3. /\ Len(recent'[h]) = l + 1 /\ recent'[h][l + 1] = t
        /\ \A i \in 1 .. l : recent'[h][i] = r[i]
    BY <1>2, <2>2 DEF l
  <2>4. ASSUME NEW i \in 1 .. l + 1, recent'[h][i] # NoTag
        PROVE  /\ HashFunc[recent'[h][i]] = h
               /\ cachedData'[h * ways + WayOf(n, l + 1, i)].valid
               /\ cachedData'[h * ways + WayOf(n, l + 1, i)].tag = recent'[h][i]
    <3>1. CASE i = l + 1
      BY <1>5, <1>6, <2>1, <2>3, <3>1 DEF t
    <3>2. CASE i \in 1 .. l
      <4>1. r[i] # NoTag /\ recent'[h][i] = r[i]
        BY <2>3, <2>4, <3>2
      <4>2. WayOf(n, l + 1, i) = WayOf(c, l, i) /\ WayOf(c, l, i) # c
        BY <1>5, <2>1, <3>2
      <4> QED
        BY <1>7, <3>2, <4>1, <4>2
    <3> QED
      BY <2>1, <3>1, <3>2
  <2>5. Len(recent'[h]) <= ways /\ counters'[h] < ways
    BY <1>1, <1>4, <1>5, <2>1, <2>3
  <2>6. ASSUME NEW i \in 1 .. Len(recent'[h]), recent'[h][i] # NoTag
        PROVE  LET e == cachedData'[h * ways + WayOf(counters'[h], Len(recent'[h]), i)] IN
               HashFunc[recent'[h][i]] = h /\ e.valid /\ e.tag = recent'[h][i]
    BY <1>4, <2>3, <2>4, <2>6
  <2> QED
    BY <2>5, <2>6 DEF InOrder, WayOf
<1>9. CASE l = ways
  <2>1. recent'[h] = Tail(Append(r, t))
    BY <1>1, <1>2, <1>4, <1>9 DEF Latest, l
  <2>2. /\ Len(recent'[h]) = ways /\ recent'[h][ways] = t
        /\ \A i \in 1 .. ways - 1 : recent'[h][i] = r[i + 1]
    BY <1>1, <1>2, <1>9, <2>1 DEF l
  <2>3. ASSUME NEW i \in 1 .. ways, recent'[h][i] # NoTag
        PROVE  /\ HashFunc[recent'[h][i]] = h
               /\ cachedData'[h * ways + WayOf(n, ways, i)].valid
               /\ cachedData'[h * ways + WayOf(n, ways, i)].tag = recent'[h][i]
    <3>1. CASE i = ways
      BY <1>5, <1>6, <2>2, <3>1 DEF t
    <3>2. CASE i \in 1 .. ways - 1
      <4>1. r[i + 1] # NoTag /\ recent'[h][i] = r[i + 1] /\ i + 1 \in 1 .. l
        BY <1>1, <1>9, <2>2, <2>3, <3>2
      <4>2. WayOf(n, ways, i) = WayOf(c, l, i + 1) /\ WayOf(c, l, i + 1) # c
        BY <1>5, <1>9, <3>2
      <4> QED
        BY <1>7, <4>1, <4>2
    <3> QED
      BY <1>1, <3>1, <3>2
  <2>4. Len(recent'[h]) <= ways /\ counters'[h] < ways
    BY <1>1, <1>4, <1>5, <2>2
  <2>5. ASSUME NEW i \in 1 .. Len(recent'[h]), recent'[h][i] # NoTag
        PROVE  LET e == cachedData'[h * ways + WayOf(counters'[h], Len(recent'[h]), i)] IN
               HashFunc[recent'[h][i]] = h /\ e.valid /\ e.tag = recent'[h][i]
    BY <1>4, <2>2, <2>3, <2>5
  <2> QED
    BY <2>4, <2>5 DEF InOrder, WayOf
<1> QED
  BY <1>1, <1>2, <1>8, <1>9

LEMMA RecentTyped ==
  ASSUME ACTypeOK, RecentInv, [ACNext]_acVars
  PROVE  recent' \in [Sets -> Seq(Tags \cup {NoTag})]
<1>1. recent \in [Sets -> Seq(Tags \cup {NoTag})]
  BY DEF RecentInv
<1>2. \A hs : Forget(hs) \in [Sets -> Seq(Tags \cup {NoTag})]
  BY <1>1 DEF Forget
<1>3. ASSUME NEW p \in Payloads, add(p) PROVE recent' \in [Sets -> Seq(Tags \cup {NoTag})]
  <2> DEFINE h == HashFunc[TagFunc[p]]
  <2>1. h \in Sets /\ TagFunc[p] \in Tags
    BY AssotiativeConstants
  <2>2. Append(recent[h], TagFunc[p]) \in Seq(Tags \cup {NoTag})
        /\ Len(Append(recent[h], TagFunc[p])) > 0
    BY <1>1, <2>1
  <2>3. Latest(Append(recent[h], TagFunc[p])) \in Seq(Tags \cup {NoTag})
    BY <2>2 DEF Latest
  <2> QED
    BY <1>1, <1>2, <1>3, <2>1, <2>3 DEF add
<1>4. ASSUME NEW t \in Tags, invalidate(t) PROVE recent' \in [Sets -> Seq(Tags \cup {NoTag})]
  <2>1. ASSUME NEW h \in Sets
        PROVE  [i \in DOMAIN recent[h] |-> IF recent[h][i] = t THEN NoTag ELSE recent[h][i]]
                 \in Seq(Tags \cup {NoTag})
    BY <1>1
  <2> QED
    BY <1>4, <2>1 DEF invalidate
<1> QED
  BY <1>1, <1>2, <1>3, <1>4 DEF ACNext, acVars, fill, find, incCounter, drop, invalidateAll

(* A payload that goes to slot s by other means than the order of its set: *)
(* the sets around s forget theirs.                                        *)
LEMMA OrderForgotten ==
  ASSUME ACTypeOK, RecentInv, NEW h \in Sets, InOrder(h), NEW s, NEW hs,
         recent' = Forget(hs), h \notin hs, counters'[h] = counters[h],
         h \notin Around(s),
         \A x \in Slots : x # s => cachedData'[x] = cachedData[x]
  PROVE  InOrder(h)'
<1>1. recent'[h] = recent[h]
  BY DEF Forget
<1>2. s \notin SetSlots(h)
  BY DEF Around
<1>3. \A x \in SetSlots(h) : cachedData'[x] = cachedData[x]
  BY <1>2, SetsInside
<1> QED
  BY <1>1, <1>3, OrderKept

(* Cache::invalidate takes the tag out of the history and its entries out  *)
(* of the set.                                                             *)
LEMMA OrderInvalidated ==
  ASSUME ACTypeOK, RecentInv, NEW t \in Tags, invalidate(t), NEW h \in Sets, InOrder(h)
  PROVE  InOrder(h)'
<1> DEFINE r == recent[h]
           q == recent'[h]
           Slot(i) == h * ways + WayOf(counters[h], Len(r), i)
<1>1. r \in Seq(Tags \cup {NoTag}) /\ Len(r) \in Nat /\ Len(r) <= ways
  BY DEF RecentInv, InOrder
<1>2. q = [i \in DOMAIN r |-> IF r[i] = t THEN NoTag ELSE r[i]]
  BY DEF invalidate
<1>3. q \in Seq(Tags \cup {NoTag}) /\ Len(q) = Len(r) /\ DOMAIN r = 1 .. Len(r)
  <2>1. DOMAIN r = 1 .. Len(r)
    BY <1>1
  <2>2. q \in [1 .. Len(r) -> Tags \cup {NoTag}]
    BY <1>1, <1>2, <2>1
  <2> HIDE DEF q, r
  <2> QED
    BY <1>1, <2>1, <2>2
<1>4. counters' = counters
  BY DEF invalidate
<1>5. ASSUME NEW i \in 1 .. Len(r), q[i] # NoTag
      PROVE  /\ HashFunc[q[i]] = h
             /\ cachedData'[Slot(i)].valid /\ cachedData'[Slot(i)].tag = q[i]
  <2>1. q[i] = r[i] /\ r[i] # t /\ r[i] # NoTag
    BY <1>2, <1>3, <1>5
  <2>2. HashFunc[r[i]] = h /\ cachedData[Slot(i)].valid /\ cachedData[Slot(i)].tag = r[i]
    BY <2>1 DEF InOrder
  <2>3. Slot(i) \in Slots
    <3>1. counters[h] < ways /\ counters[h] \in Nat
      BY <1>1 DEF InOrder, ACTypeOK
    <3>2. counters[h] \in 0 .. ways - 1 /\ Len(r) \in 0 .. ways
      BY <1>1, <3>1, AssotiativeConstants
    <3> QED
      BY <3>2, WayInSet, SetsInside
  <2>4. Slot(i) \notin Invalidated(t)
    BY <2>1, <2>2 DEF Invalidated, Copies
  <2>5. cachedData'[Slot(i)] = cachedData[Slot(i)]
    BY <2>3, <2>4 DEF invalidate
  <2> QED
    BY <2>1, <2>2, <2>5
<1> QED
  BY <1>1, <1>3, <1>4, <1>5 DEF InOrder, WayOf

LEMMA RecentNext ==
  ASSUME ACTypeOK, RecentInv, [ACNext]_acVars
  PROVE  RecentInv'
<1> SUFFICES ASSUME ~outside', NEW h \in Sets PROVE InOrder(h)'
  BY RecentTyped DEF RecentInv, Sets
<1>1. CASE UNCHANGED acVars
  <2>1. ~outside /\ UNCHANGED <<recent, counters, cachedData>>
    BY <1>1 DEF acVars
  <2> QED
    BY <2>1, OrderKept DEF RecentInv
<1>2. ASSUME ~outside PROVE InOrder(h)
  BY <1>2 DEF RecentInv
<1>3. ASSUME NEW p \in Payloads, add(p) PROVE InOrder(h)'
  <2> DEFINE g == HashFunc[TagFunc[p]]
             s == Victim(g)
  <2>1. /\ g \in Sets /\ counters[g] \in Nat /\ g * ways \in Nat /\ ways \in Nat
        /\ ~outside
    BY <1>3, AssotiativeConstants DEF ACTypeOK, Sets, add
  <2>2. s \in Slots /\ Put(s, p)
    BY <1>3 DEF add, Put
  <2>3. \A x \in Slots : x # s => cachedData'[x] = cachedData[x]
    BY <2>2 DEF Put, ACTypeOK
  <2>4. h # g => counters'[h] = counters[h]
    BY <1>3 DEF add, Advance, ACTypeOK
  <2>5. CASE counters[g] < ways
    <3>1. CASE h = g
      BY <1>2, <1>3, <2>1, <2>5, <3>1, OrderAfterAdd
    <3>2. CASE h # g
      <4>1. recent'[h] = recent[h]
        BY <1>3, <2>5, <3>2 DEF add, RecentInv
      <4>2. s \in SetSlots(g)
        BY <2>1, <2>5 DEF Victim, SetSlots
      <4>3. s \notin SetSlots(h)
        BY <2>1, <3>2, <4>2, SetsApart
      <4>4. \A x \in SetSlots(h) : cachedData'[x] = cachedData[x]
        BY <2>3, <4>3, SetsInside
      <4> QED
        BY <1>2, <2>1, <2>4, <3>2, <4>1, <4>4, OrderKept
    <3> QED
      BY <3>1, <3>2
  <2>6. CASE ~(counters[g] < ways)
    <3>1. recent' = Forget(Around(s) \cup {g})
      BY <1>3, <2>6 DEF add
    <3>2. CASE h \in Around(s) \cup {g}
      BY <3>1, <3>2, OrderOfNone DEF Forget
    <3>3. CASE h \notin Around(s) \cup {g}
      BY <1>2, <2>1, <2>3, <2>4, <3>1, <3>3, OrderForgotten
    <3> QED
      BY <3>2, <3>3
  <2> QED
    BY <2>5, <2>6
<1>4. ASSUME ~outside, recent' = Forget(Around(ref.slot)), counters' = counters,
             \A x \in Slots : x # ref.slot => cachedData'[x] = cachedData[x]
      PROVE  InOrder(h)'
  <2>1. CASE h \in Around(ref.slot)
    BY <1>4, <2>1, OrderOfNone DEF Forget
  <2>2. CASE h \notin Around(ref.slot)
    BY <1>2, <1>4, <2>2, OrderForgotten
  <2> QED
    BY <2>1, <2>2
<1>5. ASSUME NEW p \in Payloads, fill(p) PROVE InOrder(h)'
  <2>1. \A x \in Slots : x # ref.slot => cachedData'[x] = cachedData[x]
    BY <1>5 DEF fill, Put, ACTypeOK
  <2> QED
    BY <1>4, <1>5, <2>1 DEF fill
<1>6. CASE drop
  <2>1. \A x \in Slots : x # ref.slot => cachedData'[x] = cachedData[x]
    BY <1>6 DEF drop, ACTypeOK
  <2> QED
    BY <1>4, <1>6, <2>1 DEF drop
<1>7. ASSUME NEW t \in Tags, find(t) PROVE InOrder(h)'
  <2>1. ~outside /\ UNCHANGED <<recent, counters, cachedData>>
    BY <1>7 DEF find
  <2> QED
    BY <1>2, <2>1, OrderKept
<1>8. ASSUME NEW t \in Tags, invalidate(t) PROVE InOrder(h)'
  <2>1. ~outside
    BY <1>8 DEF invalidate
  <2> QED
    BY <1>2, <1>8, <2>1, OrderInvalidated
<1>9. ASSUME NEW t \in Tags, incCounter(t) PROVE InOrder(h)'
  <2>1. /\ ~outside /\ cachedData' = cachedData /\ recent' = Forget({HashFunc[t]})
        /\ h # HashFunc[t] => counters'[h] = counters[h]
    BY <1>9 DEF incCounter, ACTypeOK
  <2>2. CASE h = HashFunc[t]
    BY <2>1, <2>2, OrderOfNone DEF Forget
  <2>3. CASE h # HashFunc[t]
    <3>1. recent'[h] = recent[h]
      BY <2>1, <2>3 DEF Forget
    <3> QED
      BY <1>2, <2>1, <2>3, <3>1, OrderKept
  <2> QED
    BY <2>2, <2>3
<1>10. CASE invalidateAll
  <2>1. recent'[h] = <<>>
    BY <1>10 DEF invalidateAll, Forget
  <2> QED
    BY <2>1, OrderOfNone
<1> QED
  BY <1>1, <1>3, <1>5, <1>6, <1>7, <1>8, <1>9, <1>10 DEF ACNext

(* The last `ways' additions to a set are found, whatever was found,       *)
(* filled, dropped or invalidated between them: add evicts in the order of *)
(* arrival, for every geometry and every hash function.                    *)
THEOREM ACRecentIsFound == ACSpec => []RecentIsFound
<1>1. ACInit => RecentInv
  <2>1. SUFFICES ASSUME ACInit PROVE RecentInv
    OBVIOUS
  <2>2. \A h \in Sets : recent[h] = <<>>
    BY <2>1 DEF ACInit
  <2>3. recent \in [Sets -> Seq(Tags \cup {NoTag})]
    BY <2>1 DEF ACInit
  <2> QED
    BY <2>2, <2>3, AssotiativeConstants DEF RecentInv, InOrder
<1>2. ACTypeOK /\ RecentInv /\ [ACNext]_acVars => RecentInv'
  BY RecentNext
<1>3. ACTypeOK /\ RecentInv => RecentIsFound
  <2>1. SUFFICES ASSUME ACTypeOK, RecentInv, ~outside, NEW h \in Sets,
                        NEW i \in DOMAIN recent[h], recent[h][i] # NoTag
                 PROVE  Copies(recent[h][i]) # {}
    BY DEF RecentIsFound
  <2> DEFINE r == recent[h]
             s == h * ways + WayOf(counters[h], Len(r), i)
  <2>2. r \in Seq(Tags \cup {NoTag}) /\ InOrder(h)
    BY <2>1 DEF RecentInv
  <2>3. i \in 1 .. Len(r) /\ Len(r) \in Nat /\ Len(r) <= ways /\ counters[h] < ways
    BY <2>1, <2>2 DEF InOrder
  <2>4. counters[h] \in 0 .. ways - 1 /\ Len(r) \in 0 .. ways
    BY <2>1, <2>3, AssotiativeConstants DEF ACTypeOK
  <2>5. s \in SetSlots(h)
    BY <2>3, <2>4, WayInSet
  <2>6. HashFunc[r[i]] = h /\ cachedData[s].valid /\ cachedData[s].tag = r[i]
    BY <2>1, <2>2, <2>3 DEF InOrder
  <2> HIDE DEF s
  <2>7. s \in Copies(r[i])
    BY <2>5, <2>6 DEF Copies
  <2> QED
    BY <2>7
<1> QED
  BY <1>1, <1>2, <1>3, ACTyping, PTL DEF ACSpec
=============================================================================
