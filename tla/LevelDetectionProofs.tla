------------------------ MODULE LevelDetectionProofs ------------------------
(***************************************************************************)
(* What LevelDetection's steps preserve, for all headers in all orders:    *)
(* global expressions that start a test where the last match ended skip no *)
(* name that was not seen before, so the level is that of all headers.     *)
(***************************************************************************)
EXTENDS LevelDetection, TLAPS, SequenceTheorems, WellFoundedInduction

-----------------------------------------------------------------------------
(* Matches *)

Before == {pq \in Place \X Place : pq[1].from < pq[2].from}

\* Places cannot be ever further to the left.
LEMMA BeforeWellFounded == IsWellFoundedOn(Before, Place)
  <1>1. SUFFICES ASSUME NEW f \in [Nat -> Place], \A n \in Nat : <<f[n+1], f[n]>> \in Before
                 PROVE  FALSE
    BY DEF IsWellFoundedOn
  <1> DEFINE g == [n \in Nat |-> f[n].from]
  <1>2. g \in [Nat -> Nat]
    BY DEF Place
  <1>3. ASSUME NEW n \in Nat PROVE <<g[n+1], g[n]>> \in OpToRel(<, Nat)
    <2>1. <<f[n+1], f[n]>> \in Before /\ n + 1 \in Nat
      BY <1>1
    <2>2. g[n+1] < g[n] /\ g[n+1] \in Nat /\ g[n] \in Nat
      BY <2>1 DEF Before, Place
    <2> QED
      BY <2>2 DEF OpToRel
  <1> QED
    BY <1>2, <1>3, NatLessThanWellFounded DEF IsWellFoundedOn

\* The next test starts at an index.
LEMMA BehindNat ==
  ASSUME NEW hits, hits \subseteq Place, hits # {}
  PROVE  Behind(hits) \in Nat
  <1>1. PICK p \in hits : \A q \in hits : ~ (<<q, p>> \in Before)
    BY BeforeWellFounded, WFMin
  <1>2. ASSUME NEW q \in hits PROVE p.from <= q.from
    <2>1. p \in Place /\ q \in Place /\ p.from \in Nat /\ q.from \in Nat
      BY DEF Place
    <2>2. ~(q.from < p.from)
      BY <1>1, <2>1 DEF Before
    <2> QED
      BY <2>1, <2>2
  <1>3. (CHOOSE p_1 \in hits : \A q \in hits : p_1.from <= q.from) \in hits
    BY <1>2
  <1> QED
    BY <1>3 DEF Behind, Place

\* A test finds only matches, and from the start of a value it finds them all.
LEMMA HitsAreMatches ==
  ASSUME NEW places, places \subseteq Place, NEW index \in Nat
  PROVE  /\ Hits(places, index) \subseteq Matches(places)
         /\ Hits(places, index) \subseteq Place
         /\ Hits(places, 0) = Matches(places)
  BY DEF Hits, Matches, Place

\* What a header is made of.
LEMMA HeaderType ==
  ASSUME LevelTypeOK, NEW i \in 1 .. Len(recv)
  PROVE  /\ recv[i].key \in Keys
         /\ flags[i] \subseteq Hosts
         /\ \A h \in Hosts : recv[i].text[h] \subseteq Place
  <1>1. recv[i] \in Headers /\ flags[i] \in SUBSET Hosts
    BY ElementOfSeq DEF LevelTypeOK
  <1> QED
    BY <1>1, HeadersAssumption

-----------------------------------------------------------------------------
(* The inductive invariant *)

\* The headers this run of detect() has looked at, all of them between two runs.
Seen == IF at = 0 THEN Len(recv) ELSE at - 1

\* A mark has a reason.
MarksSound ==
  /\ \A h \in Hosts \cap stats : Named(h)
  /\ \A k \in Keys \cap stats : k # "other" /\ Has(k)

\* Nothing that was looked at is without its mark.
MarksComplete ==
  \A i \in 1 .. Seen :
    /\ \A h \in Hosts : Matches(recv[i].text[h]) # {} => h \in stats
    /\ recv[i].key # "other" => recv[i].key \in stats

FlagsSound ==
  \A i \in 1 .. Len(recv) : \A h \in flags[i] : Matches(recv[i].text[h]) # {}

\* An expression that will not start at the front of the next value has matched
\* before: what it may miss has its mark already.
IndexMarked == \A h \in Hosts : lastIndex[h] > 0 => h \in stats

LevelInv ==
  /\ LevelTypeOK
  /\ MarksSound
  /\ MarksComplete
  /\ FlagsSound
  /\ IndexMarked
  /\ level <= Verdict(stats)

\* It holds in the beginning.
LEMMA LevelStart == LevelInit => LevelInv
  <1> SUFFICES ASSUME LevelInit PROVE LevelInv
    OBVIOUS
  <1>1. LevelTypeOK
    BY DEF LevelInit, LevelTypeOK
  <1>2. MarksSound /\ MarksComplete /\ FlagsSound
    BY DEF LevelInit, MarksSound, MarksComplete, FlagsSound, Seen
  <1>3. IndexMarked /\ level <= Verdict(stats)
    BY DEF LevelInit, IndexMarked, Verdict
  <1> QED
    BY <1>1, <1>2, <1>3 DEF LevelInv

\* Marks that are sound and complete give the level of all headers.
LEMMA VerdictOfAll ==
  ASSUME LevelInv, Seen = Len(recv)
  PROVE  Verdict(stats) = LevelOfAll
  <1>1. \A h \in Hosts : h \in stats <=> Named(h)
    BY DEF LevelInv, MarksSound, MarksComplete, Named
  <1>2. \A k \in {"forward", "via"} : k \in stats <=> Has(k)
    BY DEF LevelInv, MarksSound, MarksComplete, Has, Keys
  <1>3. stats = {} <=> ~(Named("local") \/ Named("proxy") \/ Has("forward") \/ Has("via"))
    BY <1>1, <1>2 DEF LevelInv, LevelTypeOK, MarksSound, Hosts, Keys
  <1> QED
    BY <1>1, <1>3 DEF Verdict, LevelOfAll, Hosts

-----------------------------------------------------------------------------
(* The steps *)

\* New headers.
LEMMA ReceiveKeeps ==
  ASSUME LevelInv, at = 0, NEW hs \in Seq(Headers), Receive(hs)
  PROVE  LevelInv'
  <1>1. /\ recv' \in Seq(Headers)
        /\ Len(recv') = Len(recv) + Len(hs)
        /\ Len(recv) \in Nat
        /\ \A i \in 1 .. Len(recv) : recv'[i] = recv[i]
    BY ConcatProperties, LenProperties DEF Receive, LevelInv, LevelTypeOK
  <1>2. /\ flags' \in Seq(SUBSET Hosts)
        /\ Len(flags') = Len(recv')
        /\ \A i \in 1 .. Len(recv') : flags'[i] = IF i <= Len(recv) THEN flags[i] ELSE {}
    <2>1. PICK fs \in Seq(SUBSET Hosts) :
            /\ Len(fs) = Len(hs)
            /\ \A i \in 1 .. Len(hs) : fs[i] = {}
            /\ flags' = flags \o fs
      <3> DEFINE none == [i \in DOMAIN hs |-> {}]
      <3>1. DOMAIN hs = 1 .. Len(hs) /\ Len(hs) \in Nat
        BY LenProperties
      <3>2. none \in Seq(SUBSET Hosts) /\ Len(none) = Len(hs)
        BY <3>1
      <3>3. \A i \in 1 .. Len(hs) : none[i] = {}
        BY <3>1
      <3>4. flags' = flags \o none
        BY DEF Receive
      <3> HIDE DEF none
      <3> QED
        BY <3>2, <3>3, <3>4
    <2>2. flags \in Seq(SUBSET Hosts) /\ Len(flags) = Len(recv)
      BY DEF LevelInv, LevelTypeOK
    <2>3. /\ flags \o fs \in Seq(SUBSET Hosts)
          /\ Len(flags \o fs) = Len(flags) + Len(fs)
          /\ \A i \in 1 .. Len(flags) + Len(fs) :
               (flags \o fs)[i] = IF i <= Len(flags) THEN flags[i] ELSE fs[i - Len(flags)]
      BY <2>2, ConcatProperties
    <2>4. Len(hs) \in Nat
      BY LenProperties
    <2>5. ASSUME NEW i \in 1 .. Len(recv'), i > Len(recv) PROVE fs[i - Len(recv)] = {}
      BY <1>1, <2>1, <2>4, <2>5
    <2>6. flags' \in Seq(SUBSET Hosts) /\ Len(flags') = Len(recv')
      BY <1>1, <2>1, <2>2, <2>3
    <2>7. ASSUME NEW i \in 1 .. Len(recv')
          PROVE  flags'[i] = IF i <= Len(recv) THEN flags[i] ELSE {}
      <3>1. flags'[i] = IF i <= Len(recv) THEN flags[i] ELSE fs[i - Len(recv)]
        BY <1>1, <2>1, <2>2, <2>3
      <3>2. CASE i <= Len(recv)
        BY <3>1, <3>2
      <3>3. CASE i > Len(recv)
        BY <1>1, <2>5, <3>1, <3>3
      <3> QED
        BY <1>1, <3>2, <3>3
    <2> QED
      BY <2>6, <2>7
  <1>3. LevelTypeOK'
    <2>1. Len(recv') \in Nat
      BY <1>1, LenProperties
    <2>2. at' \in 0 .. Len(recv') + 1
      BY <2>1 DEF Receive
    <2>3. UNCHANGED <<lastIndex, stats, level>>
      BY DEF Receive
    <2> QED
      BY <1>1, <1>2, <2>2, <2>3 DEF LevelInv, LevelTypeOK
  <1>4. /\ \A h \in Hosts : Named(h) => Named(h)'
        /\ \A k \in Keys : Has(k) => Has(k)'
    <2>1. \A i \in 1 .. Len(recv) : i \in 1 .. Len(recv') /\ recv'[i] = recv[i]
      <3>1. Len(hs) \in Nat
        BY LenProperties
      <3> QED
        BY <1>1, <3>1
    <2>2. \A h \in Hosts : Named(h) => Named(h)'
      BY <2>1, Zenon DEF Named
    <2>3. \A k \in Keys : Has(k) => Has(k)'
      BY <2>1, Zenon DEF Has
    <2> QED
      BY <2>2, <2>3
  <1>5. MarksSound' /\ MarksComplete'
    BY <1>4 DEF Receive, LevelInv, MarksSound, MarksComplete, Seen
  <1>6. FlagsSound'
    <2> SUFFICES ASSUME NEW i \in 1 .. Len(recv'), NEW h \in flags'[i]
                 PROVE  Matches(recv'[i].text[h]) # {}
      BY Zenon DEF FlagsSound
    <2>1. i <= Len(recv) /\ h \in flags[i]
      BY <1>2
    <2>2. i \in 1 .. Len(recv) /\ recv'[i] = recv[i]
      BY <1>1, <2>1
    <2> QED
      BY <2>1, <2>2, Zenon DEF LevelInv, FlagsSound
  <1>7. IndexMarked' /\ (level <= Verdict(stats))'
    BY DEF Receive, LevelInv, IndexMarked
  <1> QED
    BY <1>3, <1>5, <1>6, <1>7 DEF LevelInv

\* More marks never mean a lower level.
LEMMA VerdictRises ==
  ASSUME NEW old, NEW new, old \subseteq new
  PROVE  Verdict(old) <= Verdict(new)
  BY DEF Verdict

\* A turn of the loop.
LEMMA DetectHeaderKeeps ==
  ASSUME LevelInv, DetectHeader
  PROVE  LevelInv'
  <1> DEFINE text == recv[at].text
             found == {h \in Hosts : Hits(text[h], lastIndex[h]) # {}}
  <1>1. at \in 1 .. Len(recv) /\ Len(recv) \in Nat
    BY LenProperties DEF LevelInv, LevelTypeOK, DetectHeader
  <1>2. /\ lastIndex' = [h \in Hosts |->
             IF h \in found THEN Behind(Hits(text[h], lastIndex[h])) ELSE 0]
        /\ flags' = [flags EXCEPT ![at] = flags[at] \cup found]
        /\ stats' = stats \cup flags[at] \cup found \cup ({recv[at].key} \ {"other"})
        /\ at' = at + 1 /\ UNCHANGED <<recv, level>>
    BY DEF DetectHeader
  <1>3. /\ recv[at].key \in Keys /\ flags[at] \subseteq Hosts
        /\ \A h \in Hosts : text[h] \subseteq Place /\ lastIndex[h] \in Nat
    BY <1>1, HeaderType DEF LevelInv, LevelTypeOK
  <1>4. \A h \in found : Matches(text[h]) # {}
    BY <1>3, HitsAreMatches
  <1>5. \A h \in Hosts : Matches(text[h]) # {} => h \in found \/ h \in stats
    BY <1>3, HitsAreMatches DEF LevelInv, IndexMarked
  <1>6. found \subseteq Hosts
    OBVIOUS
  <1>7. lastIndex' \in [Hosts -> Nat]
    <2>1. \A h \in found : Behind(Hits(text[h], lastIndex[h])) \in Nat
      BY <1>3, HitsAreMatches, BehindNat
    <2> QED
      BY <1>2, <2>1
  <1> HIDE DEF found
  <1>8. /\ flags' \in Seq(SUBSET Hosts) /\ Len(flags') = Len(recv')
        /\ \A i \in 1 .. Len(recv) :
             flags'[i] = IF i = at THEN flags[at] \cup found ELSE flags[i]
    <2>1. flags \in Seq(SUBSET Hosts) /\ Len(flags) = Len(recv)
      BY DEF LevelInv, LevelTypeOK
    <2>2. flags[at] \cup found \in SUBSET Hosts
      BY <1>3, <1>6
    <2> QED
      BY <1>1, <1>2, <2>1, <2>2, ExceptSeq
  <1>9. LevelTypeOK'
    <2>1. stats' \subseteq Hosts \cup Keys
      BY <1>2, <1>3, <1>6 DEF LevelInv, LevelTypeOK
    <2> QED
      BY <1>1, <1>2, <1>7, <1>8, <2>1 DEF LevelInv, LevelTypeOK
  <1>10. MarksSound'
    <2>1. /\ \A h \in Hosts : Named(h)' <=> Named(h)
          /\ \A k \in Keys : Has(k)' <=> Has(k)
      BY <1>2 DEF Named, Has
    <2>2. \A h \in flags[at] \cup found : Named(h)
      BY <1>1, <1>4 DEF LevelInv, FlagsSound, Named
    <2>3. Has(recv[at].key)
      BY <1>1 DEF Has
    <2>4. Hosts \cap Keys = {}
      BY DEF Hosts, Keys
    <2> QED
      BY <1>2, <1>3, <1>6, <2>1, <2>2, <2>3, <2>4 DEF LevelInv, MarksSound
  <1>11. MarksComplete'
    <2>1. Seen' = at /\ Seen = at - 1
      BY <1>1, <1>2 DEF Seen
    <2> SUFFICES ASSUME NEW i \in 1 .. at
                 PROVE  /\ \A h \in Hosts : Matches(recv[i].text[h]) # {} => h \in stats'
                        /\ recv[i].key # "other" => recv[i].key \in stats'
      BY <1>2, <2>1 DEF MarksComplete
    <2>2. CASE i = at
      BY <1>2, <1>5, <2>2
    <2>3. CASE i # at
      <3>1. i \in 1 .. Seen
        BY <1>1, <2>1, <2>3
      <3> QED
        BY <1>2, <3>1 DEF LevelInv, MarksComplete
    <2> QED
      BY <2>2, <2>3
  <1>12. FlagsSound'
    BY <1>1, <1>2, <1>4, <1>8 DEF LevelInv, FlagsSound
  <1>13. IndexMarked'
    BY <1>2 DEF IndexMarked
  <1>14. (level <= Verdict(stats))'
    <2>1. Verdict(stats) <= Verdict(stats')
      BY <1>2, VerdictRises
    <2>2. Verdict(stats) \in Int /\ Verdict(stats') \in Int /\ level \in Int
      BY DEF Verdict, LevelInv, LevelTypeOK
    <2> QED
      BY <1>2, <2>1, <2>2 DEF LevelInv
  <1> QED
    BY <1>9, <1>10, <1>11, <1>12, <1>13, <1>14 DEF LevelInv

\* The end of the loop, which sets the level of all headers.
LEMMA DetectEndsKeeps ==
  ASSUME LevelInv, DetectEnds
  PROVE  LevelInv' /\ level' = LevelOfAll' /\ level <= level'
  <1>1. Len(recv) \in Nat /\ Seen = Len(recv) /\ Seen' = Len(recv)
    BY LenProperties DEF LevelInv, LevelTypeOK, DetectEnds, Seen
  <1>2. level' = Verdict(stats) /\ at' = 0 /\ UNCHANGED <<recv, flags, lastIndex, stats>>
    BY DEF DetectEnds
  <1>3. LevelTypeOK'
    BY <1>1, <1>2 DEF LevelInv, LevelTypeOK, Verdict
  <1>4. MarksSound' /\ MarksComplete' /\ FlagsSound' /\ IndexMarked'
    BY <1>1, <1>2 DEF LevelInv, MarksSound, MarksComplete, FlagsSound, IndexMarked, Named, Has
  <1>5. (level <= Verdict(stats))' /\ level <= level'
    BY <1>2 DEF LevelInv, Verdict
  <1>6. LevelOfAll' = LevelOfAll
    BY <1>2 DEF LevelOfAll, Named, Has
  <1> QED
    BY <1>1, <1>2, <1>3, <1>4, <1>5, <1>6, VerdictOfAll DEF LevelInv
=============================================================================
