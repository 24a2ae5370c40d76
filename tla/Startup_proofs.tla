---------------------------- MODULE Startup_proofs ----------------------------
(***************************************************************************)
(* Theorems about how servers start one at a time, wherever starts are     *)
(* broken off and whichever of the three databases they find.              *)
(***************************************************************************)
EXTENDS Startup, SequenceTheorems, TLAPS

----------------------------------------------------------------------------
(* The migrations.                                                         *)

LEMMA ChangesOf ==
  /\ Changes(3) = ReconcileLegacy /\ Changes(4) = BitemporalObservations
  /\ Changes(5) = BitemporalEarthquakes /\ Changes(6) = TemporalIndexes
  /\ Changes(7) = SourcesAudit /\ Changes(8) = VolcanoFields
  /\ Changes(9) = IngestedAtEnforced /\ Changes(10) = GvpLicence
  /\ Changes(11) = CollectionPolicy /\ Changes(12) = UsgsLicence
  /\ Changes(13) = EarthquakeFields /\ Changes(14) = EarthquakeQuality
  /\ Changes(15) = IngestionRuns
  BY DEF Changes, Migration, FirstVersion

\* Only the first migration drops anything.
LEMMA NothingDropped ==
  ASSUME NEW v \in 4..15
  PROVE  Changes(v).drops = {}
  <1>4. CASE v = 4
    BY <1>4, ChangesOf DEF BitemporalObservations, Change
  <1>5. CASE v = 5
    BY <1>5, ChangesOf DEF BitemporalEarthquakes, Change
  <1>6. CASE v = 6
    BY <1>6, ChangesOf DEF TemporalIndexes, Change
  <1>7. CASE v = 7
    BY <1>7, ChangesOf DEF SourcesAudit, Change
  <1>8. CASE v = 8
    BY <1>8, ChangesOf DEF VolcanoFields, Change
  <1>9. CASE v = 9
    BY <1>9, ChangesOf DEF IngestedAtEnforced, Change
  <1>10. CASE v = 10
    BY <1>10, ChangesOf DEF GvpLicence, Change
  <1>11. CASE v = 11
    BY <1>11, ChangesOf DEF CollectionPolicy, Change
  <1>12. CASE v = 12
    BY <1>12, ChangesOf DEF UsgsLicence, Change
  <1>13. CASE v = 13
    BY <1>13, ChangesOf DEF EarthquakeFields, Change
  <1>14. CASE v = 14
    BY <1>14, ChangesOf DEF EarthquakeQuality, Change
  <1>15. CASE v = 15
    BY <1>15, ChangesOf DEF IngestionRuns, Change
  <1>16. QED
    BY <1>4, <1>5, <1>6, <1>7, <1>8, <1>9, <1>10, <1>11, <1>12, <1>13, <1>14, <1>15

LEMMA SchemaGrows ==
  ASSUME NEW v \in 4..15
  PROVE  SchemaAt(v) = SchemaAt(v - 1) \cup Changes(v).adds \cup Changes(v).ensures
  BY DEF SchemaAt, FirstVersion

\* What is there at each version.
LEMMA SchemaOf ==
  /\ SchemaAt(3) = {"volcanoes", "sources"}
  /\ SchemaAt(4) = SchemaAt(3) \cup {"observations"}
  /\ SchemaAt(5) = SchemaAt(4) \cup {"earthquakes"}
  /\ SchemaAt(6) = SchemaAt(5) \cup {"observation_indexes", "earthquake_indexes"}
  /\ SchemaAt(7) = SchemaAt(6) \cup {"source_terms"}
  /\ SchemaAt(8) = SchemaAt(7) \cup {"volcano_fields"}
  /\ SchemaAt(9) = SchemaAt(8) \cup {"observation_stamp", "earthquake_stamp"}
  /\ SchemaAt(10) = SchemaAt(9) \cup {"gvp_licence"}
  /\ SchemaAt(11) = SchemaAt(10) \cup {"source_policy"}
  /\ SchemaAt(12) = SchemaAt(11) \cup {"usgs_licence"}
  /\ SchemaAt(13) = SchemaAt(12) \cup {"earthquake_fields"}
  /\ SchemaAt(14) = SchemaAt(13) \cup {"earthquake_quality"}
  /\ SchemaAt(15) = SchemaAt(14) \cup {"runs"}
  <1>3. SchemaAt(3) = {"volcanoes", "sources"}
    <2>1. SchemaAt(3) = Changes(3).adds \cup Changes(3).ensures
      BY DEF SchemaAt, FirstVersion
    <2>2. QED
      BY <2>1, ChangesOf DEF ReconcileLegacy, Change
  <1>4. SchemaAt(4) = SchemaAt(3) \cup {"observations"}
    <2>1. SchemaAt(4) = SchemaAt(4 - 1) \cup Changes(4).adds \cup Changes(4).ensures
      BY SchemaGrows
    <2>2. QED
      BY <2>1, ChangesOf DEF BitemporalObservations, Change
  <1>5. SchemaAt(5) = SchemaAt(4) \cup {"earthquakes"}
    <2>1. SchemaAt(5) = SchemaAt(5 - 1) \cup Changes(5).adds \cup Changes(5).ensures
      BY SchemaGrows
    <2>2. QED
      BY <2>1, ChangesOf DEF BitemporalEarthquakes, Change
  <1>6. SchemaAt(6) = SchemaAt(5) \cup {"observation_indexes", "earthquake_indexes"}
    <2>1. SchemaAt(6) = SchemaAt(6 - 1) \cup Changes(6).adds \cup Changes(6).ensures
      BY SchemaGrows
    <2>2. QED
      BY <2>1, ChangesOf DEF TemporalIndexes, Change
  <1>7. SchemaAt(7) = SchemaAt(6) \cup {"source_terms"}
    <2>1. SchemaAt(7) = SchemaAt(7 - 1) \cup Changes(7).adds \cup Changes(7).ensures
      BY SchemaGrows
    <2>2. QED
      BY <2>1, ChangesOf DEF SourcesAudit, Change
  <1>8. SchemaAt(8) = SchemaAt(7) \cup {"volcano_fields"}
    <2>1. SchemaAt(8) = SchemaAt(8 - 1) \cup Changes(8).adds \cup Changes(8).ensures
      BY SchemaGrows
    <2>2. QED
      BY <2>1, ChangesOf DEF VolcanoFields, Change
  <1>9. SchemaAt(9) = SchemaAt(8) \cup {"observation_stamp", "earthquake_stamp"}
    <2>1. SchemaAt(9) = SchemaAt(9 - 1) \cup Changes(9).adds \cup Changes(9).ensures
      BY SchemaGrows
    <2>2. QED
      BY <2>1, ChangesOf DEF IngestedAtEnforced, Change
  <1>10. SchemaAt(10) = SchemaAt(9) \cup {"gvp_licence"}
    <2>1. SchemaAt(10) = SchemaAt(10 - 1) \cup Changes(10).adds \cup Changes(10).ensures
      BY SchemaGrows
    <2>2. QED
      BY <2>1, ChangesOf DEF GvpLicence, Change
  <1>11. SchemaAt(11) = SchemaAt(10) \cup {"source_policy"}
    <2>1. SchemaAt(11) = SchemaAt(11 - 1) \cup Changes(11).adds \cup Changes(11).ensures
      BY SchemaGrows
    <2>2. QED
      BY <2>1, ChangesOf DEF CollectionPolicy, Change
  <1>12. SchemaAt(12) = SchemaAt(11) \cup {"usgs_licence"}
    <2>1. SchemaAt(12) = SchemaAt(12 - 1) \cup Changes(12).adds \cup Changes(12).ensures
      BY SchemaGrows
    <2>2. QED
      BY <2>1, ChangesOf DEF UsgsLicence, Change
  <1>13. SchemaAt(13) = SchemaAt(12) \cup {"earthquake_fields"}
    <2>1. SchemaAt(13) = SchemaAt(13 - 1) \cup Changes(13).adds \cup Changes(13).ensures
      BY SchemaGrows
    <2>2. QED
      BY <2>1, ChangesOf DEF EarthquakeFields, Change
  <1>14. SchemaAt(14) = SchemaAt(13) \cup {"earthquake_quality"}
    <2>1. SchemaAt(14) = SchemaAt(14 - 1) \cup Changes(14).adds \cup Changes(14).ensures
      BY SchemaGrows
    <2>2. QED
      BY <2>1, ChangesOf DEF EarthquakeQuality, Change
  <1>15. SchemaAt(15) = SchemaAt(14) \cup {"runs"}
    <2>1. SchemaAt(15) = SchemaAt(15 - 1) \cup Changes(15).adds \cup Changes(15).ensures
      BY SchemaGrows
    <2>2. QED
      BY <2>1, ChangesOf DEF IngestionRuns, Change
  <1>16. QED
    BY <1>3, <1>4, <1>5, <1>6, <1>7, <1>8, <1>9, <1>10, <1>11, <1>12, <1>13, <1>14, <1>15

\* Each migration finds what the ones before it have left, and adds what is not
\* there yet.
LEMMA MigrationFits ==
  ASSUME NEW v \in 4..15
  PROVE  /\ Changes(v).needs \subseteq SchemaAt(v - 1)
         /\ Changes(v).adds \cap (SchemaAt(v - 1) \cup {"events"}) = {}
         /\ "events" \notin Changes(v).ensures
  <1>4. CASE v = 4
    BY <1>4, ChangesOf, SchemaOf DEF BitemporalObservations, Change
  <1>5. CASE v = 5
    BY <1>5, ChangesOf, SchemaOf DEF BitemporalEarthquakes, Change
  <1>6. CASE v = 6
    BY <1>6, ChangesOf, SchemaOf DEF TemporalIndexes, Change
  <1>7. CASE v = 7
    BY <1>7, ChangesOf, SchemaOf DEF SourcesAudit, Change
  <1>8. CASE v = 8
    BY <1>8, ChangesOf, SchemaOf DEF VolcanoFields, Change
  <1>9. CASE v = 9
    BY <1>9, ChangesOf, SchemaOf DEF IngestedAtEnforced, Change
  <1>10. CASE v = 10
    BY <1>10, ChangesOf, SchemaOf DEF GvpLicence, Change
  <1>11. CASE v = 11
    BY <1>11, ChangesOf, SchemaOf DEF CollectionPolicy, Change
  <1>12. CASE v = 12
    BY <1>12, ChangesOf, SchemaOf DEF UsgsLicence, Change
  <1>13. CASE v = 13
    BY <1>13, ChangesOf, SchemaOf DEF EarthquakeFields, Change
  <1>14. CASE v = 14
    BY <1>14, ChangesOf, SchemaOf DEF EarthquakeQuality, Change
  <1>15. CASE v = 15
    BY <1>15, ChangesOf, SchemaOf DEF IngestionRuns, Change
  <1>16. QED
    BY <1>4, <1>5, <1>6, <1>7, <1>8, <1>9, <1>10, <1>11, <1>12, <1>13, <1>14, <1>15
----------------------------------------------------------------------------
(* The version table.                                                      *)

LEMMA VersionsAre ==
  ASSUME NEW c \in Files
  PROVE  /\ VersionsUpTo(c) \in Seq({0} \cup Files)
         /\ Len(VersionsUpTo(c)) = c - 1
         /\ VersionsUpTo(c)[1] = 0
         /\ \A i \in 2..(c - 1) : VersionsUpTo(c)[i] = i + 1
  <1> DEFINE rest == [k \in 1..(c - FirstVersion + 1) |-> k + FirstVersion - 1]
  <1>1. c \in 3..15 /\ Files = 3..15 /\ FirstVersion = 3
    BY DEF Files, FirstVersion, Expected
  <1>2. /\ rest \in Seq({0} \cup Files) /\ Len(rest) = c - 2
        /\ \A k \in 1..(c - 2) : rest[k] = k + 2
    BY <1>1
  <1>3. <<0>> \in Seq({0} \cup Files) /\ Len(<<0>>) = 1 /\ <<0>>[1] = 0
    OBVIOUS
  <1> HIDE DEF rest
  <1>4. /\ <<0>> \o rest \in Seq({0} \cup Files)
        /\ Len(<<0>> \o rest) = Len(<<0>>) + Len(rest)
        /\ \A i \in 1..(Len(<<0>>) + Len(rest)) :
             (<<0>> \o rest)[i] = IF i <= Len(<<0>>) THEN <<0>>[i] ELSE rest[i - Len(<<0>>)]
    BY <1>2, <1>3, ConcatProperties
  <1>5. VersionsUpTo(c) = <<0>> \o rest
    BY DEF VersionsUpTo, rest
  <1>6. QED
    BY <1>1, <1>2, <1>3, <1>4, <1>5

LEMMA VersionsFacts ==
  ASSUME NEW c \in Files
  PROVE  /\ VersionsUpTo(c) # <<>>
         /\ Last(VersionsUpTo(c)) = c
         /\ Range(VersionsUpTo(c)) = {0} \cup FirstVersion..c
  <1>1. c \in 3..15 /\ FirstVersion = 3
    BY DEF Files, FirstVersion, Expected
  <1> DEFINE vs == VersionsUpTo(c)
  <1>2. /\ Len(vs) = c - 1 /\ DOMAIN vs = 1..(c - 1) /\ vs[1] = 0
        /\ \A i \in 2..(c - 1) : vs[i] = i + 1
    BY VersionsAre, LenProperties
  <1> HIDE DEF vs
  <1>3. vs # <<>>
    BY <1>1, <1>2
  <1>4. Last(vs) = c
    BY <1>1, <1>2 DEF Last
  <1>5. Range(vs) = {0} \cup FirstVersion..c
    <2>1. \A v \in FirstVersion..c : v - 1 \in DOMAIN vs /\ vs[v - 1] = v
      BY <1>1, <1>2
    <2>2. Range(vs) \subseteq {0} \cup FirstVersion..c
      BY <1>1, <1>2 DEF Range
    <2>3. 0 \in Range(vs)
      <3>1. 1 \in DOMAIN vs /\ vs[1] = 0
        BY <1>1, <1>2
      <3>2. QED
        BY <3>1 DEF Range
    <2>4. FirstVersion..c \subseteq Range(vs)
      BY <2>1 DEF Range
    <2>5. QED
      BY <2>2, <2>3, <2>4
  <1>6. QED
    BY <1>3, <1>4, <1>5 DEF vs

LEMMA AppendedVersion ==
  ASSUME NEW c \in Files
  PROVE  /\ c # Expected => Append(VersionsUpTo(c), c + 1) = VersionsUpTo(c + 1)
         /\ c = FirstVersion => Append(<<0>>, c) = VersionsUpTo(c)
  <1>1. c \in 3..15 /\ FirstVersion = 3 /\ Expected = 15 /\ Files = 3..15
    BY DEF Files, FirstVersion, Expected
  <1>2. ASSUME c # Expected
        PROVE  Append(VersionsUpTo(c), c + 1) = VersionsUpTo(c + 1)
    <2> DEFINE s == Append(VersionsUpTo(c), c + 1)
               t == VersionsUpTo(c + 1)
    <2>1. c + 1 \in Files
      BY <1>1, <1>2
    <2>2. /\ t \in Seq({0} \cup Files) /\ Len(t) = (c + 1) - 1 /\ t[1] = 0
          /\ \A i \in 2..((c + 1) - 1) : t[i] = i + 1
      BY <2>1, VersionsAre
    <2>3. /\ s \in Seq({0} \cup Files) /\ Len(s) = (c - 1) + 1 /\ s[1] = 0
          /\ \A i \in 2..(c - 1) : s[i] = i + 1
          /\ s[(c - 1) + 1] = c + 1
      <3> DEFINE r == VersionsUpTo(c)
      <3>1. /\ r \in Seq({0} \cup Files) /\ Len(r) = c - 1 /\ r[1] = 0
            /\ \A i \in 2..(c - 1) : r[i] = i + 1
        BY VersionsAre
      <3>2. s = Append(r, c + 1)
        OBVIOUS
      <3> HIDE DEF r, s
      <3>3. /\ Append(r, c + 1) \in Seq({0} \cup Files)
            /\ Len(Append(r, c + 1)) = Len(r) + 1
            /\ \A i \in 1..Len(r) : Append(r, c + 1)[i] = r[i]
            /\ Append(r, c + 1)[Len(r) + 1] = c + 1
        BY <2>1, <3>1, AppendProperties
      <3>4. QED
        BY <1>1, <3>1, <3>2, <3>3
    <2> HIDE DEF s, t
    <2>4. Len(s) = Len(t) /\ \A i \in 1..Len(s) : s[i] = t[i]
      BY <1>1, <2>2, <2>3
    <2>5. s = t
      BY <2>2, <2>3, <2>4, SeqEqual
    <2>6. QED
      BY <2>5 DEF s, t
  <1>3. ASSUME c = FirstVersion
        PROVE  Append(<<0>>, c) = VersionsUpTo(c)
    <2> DEFINE s == Append(<<0>>, c)
               t == VersionsUpTo(c)
    <2>1. /\ t \in Seq({0} \cup Files) /\ Len(t) = 2 /\ t[1] = 0 /\ t[2] = 3
      <3>1. /\ t \in Seq({0} \cup Files) /\ Len(t) = c - 1 /\ t[1] = 0
            /\ \A i \in 2..(c - 1) : t[i] = i + 1
        BY VersionsAre
      <3> HIDE DEF t
      <3>2. c = 3
        BY <1>1, <1>3
      <3>3. QED
        BY <3>1, <3>2
    <2>2. s \in Seq({0} \cup Files) /\ Len(s) = 2 /\ s[1] = 0 /\ s[2] = 3
      BY <1>1, <1>3
    <2> HIDE DEF s, t
    <2>3. s = t
      <3>1. Len(s) = Len(t) /\ \A i \in 1..Len(s) : s[i] = t[i]
        BY <2>1, <2>2
      <3>2. QED
        BY <2>1, <2>2, <3>1, SeqEqual
    <2>4. QED
      BY <2>3 DEF s, t
  <1>4. QED
    BY <1>2, <1>3

\* What the invariant says of the database, by its version.
LEMMA AtVersion ==
  ASSUME SchemaInv
  PROVE  /\ CurrentVersion \in {0} \cup Files
         /\ CurrentVersion = 0 =>
              versions \in {<<>>, <<0>>} /\ schema \in {{}, LegacySchema}
         /\ CurrentVersion # 0 =>
              /\ versions = VersionsUpTo(CurrentVersion)
              /\ schema \ {"events"} = SchemaAt(CurrentVersion)
         /\ Range(versions) \subseteq 0..CurrentVersion
         /\ \A v \in Files : v <= CurrentVersion => v \in Range(versions)
  <1>1. Files = 3..15 /\ FirstVersion = 3
    BY DEF Files, FirstVersion, Expected
  <1>2. CASE versions \in {<<>>, <<0>>} /\ schema \in {{}, LegacySchema}
    <2>1. CurrentVersion = 0
      BY <1>2 DEF CurrentVersion, Last
    <2>2. Range(versions) \subseteq {0}
      BY <1>2 DEF Range
    <2>3. QED
      BY <1>1, <1>2, <2>1, <2>2
  <1>3. ASSUME NEW c \in Files, versions = VersionsUpTo(c), schema \ {"events"} = SchemaAt(c)
        PROVE  /\ CurrentVersion = c
               /\ Range(versions) = {0} \cup FirstVersion..c
    BY <1>3, VersionsFacts DEF CurrentVersion
  <1>4. CASE \E c \in Files : versions = VersionsUpTo(c) /\ schema \ {"events"} = SchemaAt(c)
    <2>1. PICK c \in Files : versions = VersionsUpTo(c) /\ schema \ {"events"} = SchemaAt(c)
      BY <1>4
    <2>2. CurrentVersion = c /\ Range(versions) = {0} \cup FirstVersion..c
      BY <1>3, <2>1
    <2>3. QED
      BY <1>1, <2>1, <2>2
  <1>5. QED
    BY <1>2, <1>4 DEF SchemaInv

LEMMA NoMissingFiles ==
  ASSUME SchemaInv
  PROVE  MissingFiles = {}
  <1> DEFINE S == {0} \cup Range(versions)
  <1>1. CurrentVersion \in 0..15 /\ Files = 3..15
    BY AtVersion DEF Files, FirstVersion, Expected
  <1>2. S \subseteq 0..CurrentVersion
    BY <1>1, AtVersion
  <1>3. CurrentVersion \in S
    <2>1. CASE CurrentVersion = 0
      BY <2>1
    <2>2. CASE CurrentVersion # 0
      BY <1>1, <2>2, AtVersion
    <2>3. QED
      BY <2>1, <2>2
  <1> HIDE DEF S
  <1>4. \A x \in S : CurrentVersion >= x
    BY <1>1, <1>2
  <1>5. Max(S) \in S
    BY <1>3, <1>4 DEF Max
  <1>6. Max(S) <= CurrentVersion
    BY <1>4, <1>5
  <1>7. \A v \in Files : v < Max(S) => v \in Range(versions)
    <2>1. Max(S) \in Int
      <3>1. \A x \in S : x \in Int
        BY <1>1, <1>2
      <3>2. QED
        BY <1>5, <3>1
    <2>2. QED
      BY <1>1, <1>6, <2>1, AtVersion
  <1>8. QED
    BY <1>7 DEF S, MissingFiles
----------------------------------------------------------------------------
(* One migration.                                                          *)

LEMMA LicenceComesLate ==
  ASSUME NEW c \in 3..11
  PROVE  "usgs_licence" \notin SchemaAt(c)
  <1>1. "usgs_licence" \notin SchemaAt(5)
    BY SchemaOf
  <1>2. "usgs_licence" \notin SchemaAt(8)
    BY SchemaOf, <1>1
  <1>3. "usgs_licence" \notin SchemaAt(11)
    BY SchemaOf, <1>2
  <1>4. \A v \in 3..11 : SchemaAt(v) \subseteq SchemaAt(11)
    BY DEF SchemaAt, FirstVersion
  <1>5. QED
    BY <1>3, <1>4

LEMMA ChangesAreObjects ==
  ASSUME NEW v \in Files
  PROVE  Changes(v).adds \subseteq Object /\ Changes(v).ensures \subseteq Object
  <1>1. v \in 3..15
    BY DEF Files, FirstVersion, Expected
  <1>2. CASE v \in 3..7
    BY <1>2, ChangesOf DEF ReconcileLegacy, BitemporalObservations, BitemporalEarthquakes,
       TemporalIndexes, SourcesAudit, Change, Object
  <1>3. CASE v \in 8..11
    BY <1>3, ChangesOf DEF VolcanoFields, IngestedAtEnforced, GvpLicence, CollectionPolicy,
       Change, Object
  <1>4. CASE v \in 12..15
    BY <1>4, ChangesOf DEF UsgsLicence, EarthquakeFields, EarthquakeQuality, IngestionRuns,
       Change, Object
  <1>5. QED
    BY <1>1, <1>2, <1>3, <1>4

\* The migration that is next goes through, whichever database it finds and
\* wherever the start before was broken off, and leaves what its version says.
LEMMA NextMigration ==
  ASSUME SchemaInv, versions # <<>>, NEW v \in Files, v = NextVersion
  PROVE  /\ Applies(v, schema)
         /\ After(v, schema) \ {"events"} = SchemaAt(v)
         /\ Append(versions, v) = VersionsUpTo(v)
         /\ "events" \in schema => "events" \in After(v, schema)
         /\ "usgs_licence" \in schema => EnabledAfter(v, schema, enabled) = enabled
  <1>1. v \in 3..15 /\ FirstVersion = 3 /\ Expected = 15 /\ Files = 3..15
    BY DEF Files, FirstVersion, Expected
  <1>2. CASE CurrentVersion = 0
    <2>1. v = 3 /\ versions = <<0>> /\ schema \in {{}, LegacySchema}
      BY <1>1, <1>2, AtVersion DEF NextVersion
    <2>2. /\ Changes(3).needs = {} /\ Changes(3).adds = {}
          /\ Changes(3).ensures = {"volcanoes", "sources"}
          /\ Changes(3).drops =
               {"old_observations", "old_earthquakes", "observations", "earthquakes"}
      BY ChangesOf DEF ReconcileLegacy, Change
    <2>3. Applies(v, schema)
      BY <2>1, <2>2 DEF Applies
    <2>4. Append(versions, v) = VersionsUpTo(v)
      BY <1>1, <2>1, AppendedVersion
    <2>5. "events" \notin schema /\ "usgs_licence" \notin schema
      BY <2>1 DEF LegacySchema
    <2>6. After(v, schema) \ {"events"} = SchemaAt(v)
      <3> DEFINE gone == UNION {{table} \cup HangingOn(table) : table \in Changes(v).drops}
      <3>1. After(v, schema) = (schema \ gone) \cup Changes(v).adds \cup Changes(v).ensures
        BY DEF After
      <3>2. {"old_observations", "old_earthquakes"} \subseteq gone
        BY <2>1, <2>2
      <3>3. schema \subseteq {"volcanoes", "sources", "old_observations", "old_earthquakes"}
        BY <2>1 DEF LegacySchema
      <3>4. SchemaAt(3) = {"volcanoes", "sources"}
        BY SchemaOf
      <3> HIDE DEF gone
      <3>5. After(v, schema) = {"volcanoes", "sources"}
        BY <2>1, <2>2, <3>1, <3>2, <3>3
      <3>6. QED
        BY <2>1, <3>4, <3>5
    <2>7. QED
      BY <2>3, <2>4, <2>5, <2>6
  <1>3. CASE CurrentVersion # 0
    <2> DEFINE c == CurrentVersion
    <2>1. /\ c \in Files /\ v = c + 1 /\ versions = VersionsUpTo(c)
          /\ schema \ {"events"} = SchemaAt(c)
      BY <1>3, AtVersion DEF NextVersion
    <2> HIDE DEF c
    <2>2. v \in 4..15 /\ c = v - 1 /\ c # Expected
      BY <1>1, <2>1
    <2>3. /\ Changes(v).needs \subseteq SchemaAt(v - 1)
          /\ Changes(v).adds \cap (SchemaAt(v - 1) \cup {"events"}) = {}
          /\ "events" \notin Changes(v).ensures
      BY <2>2, MigrationFits
    <2>4. Applies(v, schema)
      BY <2>1, <2>2, <2>3 DEF Applies
    <2>5. After(v, schema) = schema \cup Changes(v).adds \cup Changes(v).ensures
      BY <2>2, NothingDropped DEF After
    <2>6. SchemaAt(v) = SchemaAt(v - 1) \cup Changes(v).adds \cup Changes(v).ensures
      BY <2>2, SchemaGrows
    <2>7. After(v, schema) \ {"events"} = SchemaAt(v)
      BY <2>1, <2>2, <2>3, <2>5, <2>6
    <2>8. Append(versions, v) = VersionsUpTo(v)
      BY <2>1, <2>2, AppendedVersion
    <2>9. "usgs_licence" \in schema => EnabledAfter(v, schema, enabled) = enabled
      <3>1. CASE v \in 13..15
        <4>1. v # 3 /\ v # 7 /\ v # 12
          BY <3>1
        <4>2. QED
          BY <4>1, Zenon DEF EnabledAfter
      <3>2. CASE v \in 4..12
        <4>1. c \in 3..11
          BY <2>2, <3>2
        <4>2. "usgs_licence" \notin SchemaAt(c)
          BY <4>1, LicenceComesLate
        <4>3. QED
          BY <2>1, <4>2
      <3>3. QED
        BY <2>2, <3>1, <3>2
    <2>10. QED
      BY <2>4, <2>5, <2>7, <2>8, <2>9
  <1>4. QED
    BY <1>2, <1>3

\* What a start picks is the migration that is next.
LEMMA PickedIsNext ==
  ASSUME SchemaInv
  PROVE  LET pending == {v \in Files : v > CurrentVersion}
         IN  /\ pending = {} <=> CurrentVersion = Expected
             /\ pending # {} => Min(pending) = NextVersion /\ NextVersion \in Files
  <1> DEFINE pending == {v \in Files : v > CurrentVersion}
  <1>1. FirstVersion = 3 /\ Expected = 15 /\ Files = 3..15
    BY DEF Files, FirstVersion, Expected
  <1>2. CurrentVersion = 0 \/ CurrentVersion \in 3..15
    BY <1>1, AtVersion
  <1>3. pending = {} <=> CurrentVersion = Expected
    <2>1. CASE CurrentVersion = Expected
      BY <1>1, <2>1
    <2>2. CASE CurrentVersion # Expected
      <3>1. 15 \in pending
        BY <1>1, <1>2, <2>2
      <3>2. QED
        BY <2>2, <3>1
    <2>3. QED
      BY <2>1, <2>2
  <1>4. ASSUME pending # {}
        PROVE  Min(pending) = NextVersion /\ NextVersion \in Files
    <2>1. CurrentVersion # 15
      BY <1>1, <1>3, <1>4
    <2>2. NextVersion \in pending /\ \A v \in pending : NextVersion <= v
      BY <1>1, <1>2, <2>1 DEF NextVersion
    <2>3. \A v \in pending : v \in Int
      BY <1>1
    <2> HIDE DEF pending
    <2>4. Min(pending) \in pending /\ \A v \in pending : Min(pending) <= v
      BY <2>2 DEF Min
    <2>5. Min(pending) = NextVersion
      BY <2>2, <2>3, <2>4
    <2>6. QED
      BY <2>2, <2>5 DEF pending
  <1>5. QED
    BY <1>3, <1>4
----------------------------------------------------------------------------
(* The invariant.                                                          *)

StartupInv == TypeOK /\ SchemaInv /\ StartInv

LEMMA InitStartupInv == Init => StartupInv
  <1> SUFFICES ASSUME Init PROVE StartupInv
    OBVIOUS
  <1>1. FirstVersion = 3 /\ Expected = 15 /\ Files = 3..15
    BY DEF Files, FirstVersion, Expected
  <1>2. \/ schema = {} /\ versions = <<>>
        \/ schema = LegacySchema /\ versions = <<>>
        \/ schema = SchemaAt(10) \cup {"events"} /\ versions = VersionsUpTo(10)
    BY DEF Init
  <1>3. "events" \notin SchemaAt(10) /\ SchemaAt(10) \subseteq Object
    <2>1. SchemaAt(5) \subseteq Object \ {"events"}
      BY SchemaOf DEF Object
    <2>2. SchemaAt(8) \subseteq Object \ {"events"}
      BY SchemaOf, <2>1 DEF Object
    <2>3. SchemaAt(10) \subseteq Object \ {"events"}
      BY SchemaOf, <2>2 DEF Object
    <2>4. QED
      BY <2>3
  <1>4. SchemaInv
    BY <1>1, <1>2, <1>3 DEF SchemaInv
  <1>5. schema \subseteq Object
    BY <1>2, <1>3 DEF LegacySchema, Object
  <1>6. versions \in Seq({0} \cup Files)
    <2>1. CASE versions = <<>>
      BY <2>1, EmptySeq
    <2>2. CASE versions = VersionsUpTo(10)
      <3>1. 10 \in Files
        BY <1>1
      <3>2. QED
        BY <2>2, <3>1, VersionsAre
    <2>3. QED
      BY <1>2, <2>1, <2>2
  <1>7. enabled \in BOOLEAN
    BY DEF Init
  <1>8. TypeOK
    BY <1>5, <1>6, <1>7, StartupAssumption DEF Init, TypeOK, Stage
  <1>9. StartInv
    BY DEF Init, StartInv, Starting
  <1>10. QED
    BY <1>4, <1>8, <1>9 DEF StartupInv

\* A step that leaves the version table and the schema alone keeps what is known
\* of them; this is what it has to show of the server that takes it.
LEMMA QuietStart ==
  ASSUME StartupInv, NEW s \in Server, NEW next \in Stage, Goto(s, next),
         UNCHANGED <<schema, versions, up, enabled, outages>>, starts' \in 0..MaxStarts,
         aim' \in [Server -> {0} \cup Files], \A r \in Server : r # s => aim'[r] = aim[r],
         collecting' \in [Server -> BOOLEAN],
         \A r \in Server : r # s => collecting'[r] = collecting[r],
         collecting'[s] => next \in {"listen", "serving"},
         next \in Starting =>
           stage[s] \in Starting \/ \A r \in Server : stage[r] \notin Starting,
         next = "create" => versions = <<>>,
         next = "pick" => versions # <<>>,
         next = "apply" => versions # <<>> /\ aim'[s] \in Files /\ aim'[s] = NextVersion,
         next \in {"pool", "source", "listen", "serving"} => CurrentVersion = Expected
  PROVE  StartupInv'
  <1> USE DEF StartupInv
  <1>1. /\ stage' \in [Server -> Stage] /\ stage'[s] = next
        /\ \A r \in Server : r # s => stage'[r] = stage[r]
    BY DEF TypeOK, Goto
  <1>2. versions' = versions /\ schema' = schema
    OBVIOUS
  <1>3. TypeOK'
    BY <1>1, <1>2 DEF TypeOK
  <1>4. SchemaInv'
    BY <1>2 DEF SchemaInv
  <1>5. CurrentVersion' = CurrentVersion /\ NextVersion' = NextVersion
    BY <1>2 DEF CurrentVersion, NextVersion
  <1>6. StartInv'
    <2>1. ASSUME NEW r \in Server, NEW q \in Server,
                 stage'[r] \in Starting, stage'[q] \in Starting
          PROVE  r = q
      BY <1>1, <2>1 DEF StartInv
    <2>2. ASSUME NEW r \in Server
          PROVE  /\ stage'[r] = "create" => versions' = <<>>
                 /\ stage'[r] = "pick" => versions' # <<>>
                 /\ stage'[r] = "apply" =>
                      versions' # <<>> /\ aim'[r] \in Files /\ aim'[r] = NextVersion'
                 /\ stage'[r] \in {"pool", "source", "listen", "serving"} =>
                      CurrentVersion' = Expected
      <3>1. CASE r = s
        BY <1>1, <1>2, <1>5, <3>1
      <3>2. CASE r # s
        BY <1>1, <1>2, <1>5, <3>2 DEF StartInv
      <3>3. QED
        BY <3>1, <3>2
    <2>3. QED
      BY <2>1, <2>2 DEF StartInv
  <1>7. QED
    BY <1>3, <1>4, <1>6

\* Ending a process is such a step.
LEMMA GoneDown ==
  ASSUME StartupInv, NEW s \in Server, GoDown(s), UNCHANGED <<database, starts, outages>>
  PROVE  StartupInv'
  <1>1. /\ Goto(s, "down") /\ "down" \in Stage
        /\ aim' \in [Server -> {0} \cup Files] /\ \A r \in Server : r # s => aim'[r] = aim[r]
        /\ collecting' \in [Server -> BOOLEAN] /\ ~collecting'[s]
        /\ \A r \in Server : r # s => collecting'[r] = collecting[r]
    BY DEF GoDown, StartupInv, TypeOK, Stage
  <1>2. "down" \notin Starting
    BY DEF Starting
  <1>3. UNCHANGED <<schema, versions, up, enabled, outages>> /\ starts' \in 0..MaxStarts
    BY DEF database, StartupInv, TypeOK
  <1>4. QED
    BY <1>1, <1>2, <1>3, QuietStart

\* While a server starts, no other does; and one that still has something to
\* migrate finds no server that serves.
LEMMA AloneWhileBehind ==
  ASSUME StartupInv, NEW s \in Server,
         \/ stage[s] = "create"
         \/ stage[s] = "apply"
  PROVE  \A r \in Server : r # s => stage[r] = "down"
  <1>1. stage[s] \in Starting
    BY DEF Starting
  <1>2. CurrentVersion # Expected
    <2>1. CASE stage[s] = "create"
      BY <2>1 DEF StartupInv, StartInv, CurrentVersion, Expected
    <2>2. CASE stage[s] = "apply"
      <3>1. NextVersion \in Files
        BY <2>2 DEF StartupInv, StartInv
      <3>2. QED
        BY <3>1 DEF NextVersion, Files, FirstVersion, Expected
    <2>3. QED
      BY <2>1, <2>2
  <1>3. QED
    BY <1>1, <1>2 DEF StartupInv, StartInv, TypeOK, Stage

LEMMA NextStartupInv ==
  ASSUME Together = FALSE, StartupInv, [Next]_vars
  PROVE  StartupInv'
  <1> USE DEF StartupInv
  <1>1. CASE StopDatabase \/ StartDatabase \/ SwitchSource \/ UNCHANGED vars
    <2>1. UNCHANGED <<schema, versions, stage, aim, collecting, starts>>
      BY <1>1 DEF StopDatabase, StartDatabase, SwitchSource, vars, database
    <2>2. up' \in BOOLEAN /\ enabled' \in BOOLEAN /\ outages' \in 0..MaxOutages
      <3>1. CASE StopDatabase
        <4>1. outages' \in 0..MaxOutages
          BY <3>1, StartupAssumption DEF StopDatabase, TypeOK
        <4>2. QED
          BY <3>1, <4>1 DEF StopDatabase, TypeOK
      <3>2. CASE StartDatabase
        BY <3>2 DEF StartDatabase, TypeOK
      <3>3. CASE SwitchSource
        BY <3>3 DEF SwitchSource, TypeOK
      <3>4. CASE UNCHANGED vars
        BY <3>4 DEF vars, database, TypeOK
      <3>5. QED
        BY <1>1, <3>1, <3>2, <3>3, <3>4
    <2>3. TypeOK' /\ SchemaInv'
      BY <2>1, <2>2 DEF TypeOK, SchemaInv
    <2>4. StartInv'
      BY <2>1 DEF StartInv, NextVersion, CurrentVersion
    <2>5. QED
      BY <2>3, <2>4
  <1>2. ASSUME NEW s \in Server, Begin(s)
        PROVE  StartupInv'
    <2>1. /\ Goto(s, "waiting") /\ "waiting" \in Stage
          /\ UNCHANGED <<schema, versions, up, enabled, outages, aim, collecting>>
          /\ starts' \in 0..MaxStarts
          /\ \A r \in Server : stage[r] \notin Starting
      BY <1>2, StartupAssumption DEF Begin, database, TypeOK, Stage, Starting
    <2>2. ~collecting[s]
      BY <1>2 DEF Begin, TypeOK
    <2>3. QED
      BY <2>1, <2>2, QuietStart DEF TypeOK
  <1>3. ASSUME NEW s \in Server, GiveUpWaiting(s) \/ FailWithoutDatabase(s) \/ Kill(s)
        PROVE  StartupInv'
    BY <1>3, GoneDown DEF GiveUpWaiting, FailWithoutDatabase, Kill
  <1>4. ASSUME NEW s \in Server, FindReady(s)
        PROVE  StartupInv'
    <2>1. /\ Goto(s, "ensure") /\ "ensure" \in Stage /\ stage[s] \in Starting /\ ~collecting[s]
          /\ UNCHANGED <<schema, versions, up, enabled, outages, aim, collecting, starts>>
      BY <1>4 DEF FindReady, database, TypeOK, Stage, Starting
    <2>2. QED
      BY <2>1, QuietStart DEF TypeOK
  <1>5. ASSUME NEW s \in Server, Ensure(s)
        PROVE  StartupInv'
    <2>1. MissingFiles = {}
      BY NoMissingFiles
    <2>2. PICK next \in {"create", "pick"} :
            /\ Goto(s, next)
            /\ next = "create" => versions = <<>>
            /\ next = "pick" => versions # <<>>
      BY <1>5, <2>1 DEF Ensure
    <2>3. /\ next \in Stage /\ stage[s] \in Starting /\ ~collecting[s]
          /\ UNCHANGED <<schema, versions, up, enabled, outages, aim, collecting, starts>>
      BY <1>5, <2>1 DEF Ensure, database, TypeOK, Stage, Starting
    <2>4. QED
      BY <2>2, <2>3, QuietStart DEF TypeOK
  <1>6. ASSUME NEW s \in Server, CreateVersionTable(s)
        PROVE  StartupInv'
    <2>1. stage[s] = "create" /\ versions = <<>>
      BY <1>6 DEF CreateVersionTable, StartInv
    <2>2. /\ versions' = <<0>> /\ Goto(s, "pick")
          /\ UNCHANGED <<aim, collecting, up, schema, enabled, starts, outages>>
      BY <1>6, <2>1 DEF CreateVersionTable
    <2>3. /\ stage' \in [Server -> Stage] /\ stage'[s] = "pick"
          /\ \A r \in Server : r # s => stage'[r] = "down"
      BY <2>1, <2>2, AloneWhileBehind DEF TypeOK, Goto, Stage, Starting
    <2>4. schema \in {{}, LegacySchema}
      <3>1. CurrentVersion = 0
        BY <2>1 DEF CurrentVersion
      <3>2. QED
        BY <3>1, AtVersion
    <2>5. SchemaInv'
      BY <2>2, <2>4 DEF SchemaInv
    <2>6. \A r \in Server : ~collecting[r]
      BY <2>1, AloneWhileBehind DEF TypeOK
    <2>7. TypeOK'
      BY <2>2, <2>3, <2>6 DEF TypeOK
    <2>8. StartInv'
      BY <2>2, <2>3 DEF StartInv, Starting
    <2>9. QED
      BY <2>5, <2>7, <2>8
  <1>7. ASSUME NEW s \in Server, Pick(s)
        PROVE  StartupInv'
    <2> DEFINE pending == {v \in Files : v > CurrentVersion}
    <2>1. /\ pending = {} <=> CurrentVersion = Expected
          /\ pending # {} => Min(pending) = NextVersion /\ NextVersion \in Files
      BY PickedIsNext
    <2>2. /\ stage[s] \in Starting /\ ~collecting[s] /\ versions # <<>>
          /\ UNCHANGED <<schema, versions, up, enabled, outages, collecting, starts>>
      BY <1>7 DEF Pick, database, TypeOK, Starting, StartInv
    <2>3. CASE pending = {}
      <3>1. /\ Goto(s, "pool") /\ "pool" \in Stage /\ aim' = [aim EXCEPT ![s] = 0]
        BY <1>7, <2>3 DEF Pick, Stage, Starting
      <3>2. aim' \in [Server -> {0} \cup Files] /\ \A r \in Server : r # s => aim'[r] = aim[r]
        BY <3>1 DEF TypeOK
      <3>3. QED
        BY <2>1, <2>2, <2>3, <3>1, <3>2, QuietStart DEF TypeOK
    <2>4. CASE pending # {}
      <3>1. /\ Goto(s, "apply") /\ "apply" \in Stage /\ aim' = [aim EXCEPT ![s] = NextVersion]
        BY <1>7, <2>1, <2>4 DEF Pick, Stage, Starting
      <3>2. /\ aim' \in [Server -> {0} \cup Files] /\ aim'[s] = NextVersion
            /\ \A r \in Server : r # s => aim'[r] = aim[r]
        BY <2>1, <2>4, <3>1 DEF TypeOK
      <3>3. QED
        BY <2>1, <2>2, <2>4, <3>1, <3>2, QuietStart DEF TypeOK
    <2>5. QED
      BY <2>3, <2>4
  <1>8. ASSUME NEW s \in Server, Apply(s)
        PROVE  StartupInv'
    <2> DEFINE v == aim[s]
    <2>1. stage[s] = "apply" /\ versions # <<>> /\ v \in Files /\ v = NextVersion
      BY <1>8 DEF Apply, StartInv
    <2>2. /\ Applies(v, schema)
          /\ After(v, schema) \ {"events"} = SchemaAt(v)
          /\ Append(versions, v) = VersionsUpTo(v)
      BY <2>1, NextMigration
    <2>3. /\ schema' = After(v, schema) /\ versions' = Append(versions, v) /\ Goto(s, "pick")
          /\ enabled' = EnabledAfter(v, schema, enabled)
          /\ UNCHANGED <<aim, collecting, up, starts, outages>>
      BY <1>8, <2>2 DEF Apply
    <2>4. /\ stage' \in [Server -> Stage] /\ stage'[s] = "pick"
          /\ \A r \in Server : r # s => stage'[r] = "down"
      BY <2>1, <2>3, AloneWhileBehind DEF TypeOK, Goto, Stage, Starting
    <2>5. \A r \in Server : ~collecting[r]
      BY <2>1, AloneWhileBehind DEF TypeOK
    <2> HIDE DEF v
    <2>6. SchemaInv'
      BY <2>1, <2>2, <2>3 DEF SchemaInv
    <2>7. versions' # <<>> /\ versions' \in Seq({0} \cup Files)
      BY <2>1, <2>2, <2>3, VersionsAre, VersionsFacts
    <2>8. schema' \subseteq Object
      BY <2>1, <2>3, ChangesAreObjects DEF After, TypeOK
    <2>9. enabled' \in BOOLEAN
      BY <2>3 DEF EnabledAfter, TypeOK
    <2>10. TypeOK'
      BY <2>3, <2>4, <2>5, <2>7, <2>8, <2>9 DEF TypeOK
    <2>11. StartInv'
      BY <2>4, <2>7 DEF StartInv, Starting
    <2>12. QED
      BY <2>6, <2>10, <2>11
  <1>9. ASSUME NEW s \in Server, OpenPool(s)
        PROVE  StartupInv'
    <2>1. /\ Goto(s, "source") /\ "source" \in Stage /\ stage[s] \in Starting /\ ~collecting[s]
          /\ CurrentVersion = Expected
          /\ UNCHANGED <<schema, versions, up, enabled, outages, aim, collecting, starts>>
      BY <1>9 DEF OpenPool, database, TypeOK, Stage, Starting, StartInv
    <2>2. QED
      BY <2>1, QuietStart DEF TypeOK
  <1>10. ASSUME NEW s \in Server, StartScheduler(s)
         PROVE  StartupInv'
    <2>1. /\ Goto(s, "listen") /\ "listen" \in Stage /\ stage[s] \in Starting
          /\ CurrentVersion = Expected
          /\ UNCHANGED <<schema, versions, up, enabled, outages, aim, starts>>
      BY <1>10 DEF StartScheduler, database, TypeOK, Stage, Starting, StartInv
    <2>2. PICK interval \in BOOLEAN :
            collecting' = [collecting EXCEPT ![s] = interval /\ up /\ enabled]
      BY <1>10 DEF StartScheduler
    <2>3. (interval /\ up /\ enabled) \in BOOLEAN
      OBVIOUS
    <2>4. /\ collecting' \in [Server -> BOOLEAN]
          /\ \A r \in Server : r # s => collecting'[r] = collecting[r]
      BY <2>2, <2>3 DEF TypeOK
    <2>5. QED
      BY <2>1, <2>4, QuietStart DEF TypeOK
  <1>11. ASSUME NEW s \in Server, Listen(s)
         PROVE  StartupInv'
    <2>1. /\ Goto(s, "serving") /\ "serving" \in Stage /\ "serving" \notin Starting
          /\ CurrentVersion = Expected
          /\ UNCHANGED <<schema, versions, up, enabled, outages, aim, collecting, starts>>
      BY <1>11 DEF Listen, database, Stage, Starting, StartInv
    <2>2. QED
      BY <2>1, QuietStart DEF TypeOK
  <1>12. QED
    BY <1>1, <1>2, <1>3, <1>4, <1>5, <1>6, <1>7, <1>8, <1>9, <1>10, <1>11 DEF Next, Start

\* However starts are killed, cut off from the database and begun again, one
\* after the other: the recorded version says what the schema holds, and each
\* start knows where it stands (db.go, goose's table of versions).
THEOREM StartupInvariance ==
  ASSUME Together = FALSE
  PROVE  Spec => []StartupInv
  <1>1. Init => StartupInv
    BY InitStartupInv
  <1>2. StartupInv /\ [Next]_vars => StartupInv'
    BY NextStartupInv
  <1>3. QED
    BY <1>1, <1>2, PTL DEF Spec

----------------------------------------------------------------------------
(* The properties.                                                         *)

\* As long as servers start one at a time, no start is refused by what an
\* earlier one, broken off anywhere, has left (db.go, migrations/).
THEOREM StartsAreNeverRefused ==
  ASSUME Together = FALSE
  PROVE  Spec => []NeverRefused
  <1>1. StartupInv => NeverRefused
    <2> SUFFICES ASSUME StartupInv PROVE NeverRefused
      OBVIOUS
    <2>1. MissingFiles = {}
      BY NoMissingFiles DEF StartupInv
    <2>2. \A s \in Server : stage[s] = "apply" => Applies(aim[s], schema)
      BY NextMigration DEF StartupInv, StartInv
    <2>3. QED
      BY <2>1, <2>2 DEF NeverRefused, StartupInv, StartInv
  <1>2. QED
    BY <1>1, StartupInvariance, PTL

\* A server that reports healthy has all that its statements need, as long as
\* servers start one at a time (handleHealth, schema_version.go).
THEOREM HealthIsHonest ==
  ASSUME Together = FALSE
  PROVE  Spec => []HealthHonest
  <1>1. StartupInv => HealthHonest
    <2> SUFFICES ASSUME StartupInv, NEW s \in Server, stage[s] = "serving"
                 PROVE  Complete(schema)
      BY DEF HealthHonest
    <2>1. CurrentVersion = Expected /\ Expected # 0
      BY DEF StartupInv, StartInv, Expected
    <2>2. schema \ {"events"} = SchemaAt(Expected)
      BY <2>1, AtVersion DEF StartupInv
    <2>3. QED
      BY <2>2 DEF Complete
  <1>2. QED
    BY <1>1, StartupInvariance, PTL

\* No start loses an event that was collected, nor what an operator decided
\* about the source (migrations 003, 007 and 012).
THEOREM StartsKeepData ==
  ASSUME Together = FALSE
  PROVE  Spec => DataKept
  <1> DEFINE Kept == /\ "events" \in schema => "events" \in schema'
                     /\ versions' # versions /\ "usgs_licence" \in schema => enabled' = enabled
  <1>1. StartupInv /\ [Next]_vars => [Kept]_database
    <2> SUFFICES ASSUME StartupInv, [Next]_vars PROVE [Kept]_database
      OBVIOUS
    <2>1. ASSUME NEW s \in Server, Apply(s)
          PROVE  Kept
      <3>1. /\ stage[s] = "apply" /\ versions # <<>> /\ aim[s] \in Files /\ aim[s] = NextVersion
        BY <2>1 DEF Apply, StartupInv, StartInv
      <3>2. /\ Applies(aim[s], schema)
            /\ "events" \in schema => "events" \in After(aim[s], schema)
            /\ "usgs_licence" \in schema => EnabledAfter(aim[s], schema, enabled) = enabled
        BY <3>1, NextMigration DEF StartupInv
      <3>3. schema' = After(aim[s], schema) /\ enabled' = EnabledAfter(aim[s], schema, enabled)
        BY <2>1, <3>2 DEF Apply
      <3>4. QED
        BY <3>2, <3>3
    <2>2. ASSUME NEW s \in Server, CreateVersionTable(s)
          PROVE  Kept
      BY <2>2 DEF CreateVersionTable
    <2>3. CASE StopDatabase \/ StartDatabase \/ SwitchSource
      BY <2>3 DEF StopDatabase, StartDatabase, SwitchSource
    <2>4. CASE UNCHANGED database
      BY <2>4
    <2>5. \/ StopDatabase \/ StartDatabase \/ SwitchSource \/ UNCHANGED database
          \/ \E s \in Server : Apply(s) \/ CreateVersionTable(s)
      BY DEF Next, Start, Begin, FindReady, GiveUpWaiting, Ensure, Pick, OpenPool,
         StartScheduler, Listen, FailWithoutDatabase, Kill, vars
    <2>6. QED
      BY <2>1, <2>2, <2>3, <2>4, <2>5
  <1>2. QED
    BY <1>1, StartupInvariance, PTL DEF Spec, DataKept

----------------------------------------------------------------------------
(* The refinement: version by version, and no request before the last.     *)

LEMMA BuiltIs ==
  ASSUME NEW v \in {0} \cup Files
  PROVE  [w \in {0} \cup Files |-> IF w = 0 THEN {} ELSE SchemaAt(w)][v]
           = IF v = 0 THEN {} ELSE SchemaAt(v)
  OBVIOUS

LEMMA InitContract == Init => Contract!Init
  <1> SUFFICES ASSUME Init PROVE Contract!Init
    OBVIOUS
  <1>1. SchemaInv
    BY InitStartupInv DEF StartupInv
  <1>2. CurrentVersion \in {0} \cup Files
    BY <1>1, AtVersion
  <1>3. CurrentVersion # 0 => schema \ {"events"} = SchemaAt(CurrentVersion)
    BY <1>1, AtVersion
  <1>4. {s \in Server : stage[s] = "serving"} = {}
    BY DEF Init
  <1>5. QED
    BY <1>2, <1>3, <1>4, BuiltIs DEF Contract!Init, Contract!Versions, Files

LEMMA ContractStep ==
  ASSUME Together = FALSE, StartupInv, StartupInv', [Next]_vars
  PROVE  [Contract!Next]_(Contract!vars)
  <1> DEFINE objects == IF CurrentVersion = 0 THEN {} ELSE schema \ {"events"}
             serving == {s \in Server : stage[s] = "serving"}
  <1> USE DEF StartupInv
  <1>1. CASE UNCHANGED <<schema, versions, stage>>
    <2>1. UNCHANGED <<CurrentVersion, objects, serving>>
      BY <1>1 DEF CurrentVersion
    <2>2. QED
      BY <2>1 DEF Contract!vars
  <1>2. ASSUME NEW s \in Server, UNCHANGED <<schema, versions>>, NEW next \in Stage \ {"serving"},
               Goto(s, next)
        PROVE  [Contract!Next]_(Contract!vars)
    <2>1. CurrentVersion' = CurrentVersion /\ objects' = objects
      BY <1>2 DEF CurrentVersion
    <2>2. serving' \subseteq serving
      BY <1>2 DEF Goto, TypeOK
    <2>3. QED
      BY <2>1, <2>2 DEF Contract!Next, Contract!Leave
  <1>3. ASSUME NEW s \in Server, Listen(s)
        PROVE  [Contract!Next]_(Contract!vars)
    <2>1. UNCHANGED <<schema, versions>>
      BY <1>3 DEF Listen, database
    <2>2. CurrentVersion' = CurrentVersion /\ objects' = objects
      BY <2>1 DEF CurrentVersion
    <2>3. CurrentVersion = Expected
      BY <1>3 DEF Listen, StartInv
    <2>4. s \in serving' /\ serving' = serving \cup {s}
      BY <1>3 DEF Listen, Goto, TypeOK
    <2>5. QED
      BY <2>2, <2>3, <2>4 DEF Contract!Next, Contract!Serve
  <1>4. ASSUME NEW s \in Server, CreateVersionTable(s)
        PROVE  [Contract!Next]_(Contract!vars)
    <2>1. versions = <<>> /\ stage[s] = "create"
      BY <1>4 DEF CreateVersionTable, StartInv
    <2>2. versions' = <<0>> /\ Goto(s, "pick")
      BY <1>4, <2>1 DEF CreateVersionTable
    <2>3. CurrentVersion = 0 /\ CurrentVersion' = 0
      BY <2>1, <2>2 DEF CurrentVersion, Last
    <2>4. serving' = serving
      BY <2>1, <2>2 DEF Goto, TypeOK
    <2>5. QED
      BY <2>3, <2>4 DEF Contract!vars
  <1>5. ASSUME NEW s \in Server, Apply(s)
        PROVE  [Contract!Next]_(Contract!vars)
    <2> DEFINE v == aim[s]
    <2>1. stage[s] = "apply" /\ versions # <<>> /\ v \in Files /\ v = NextVersion
      BY <1>5 DEF Apply, StartInv
    <2>2. /\ Applies(v, schema)
          /\ After(v, schema) \ {"events"} = SchemaAt(v)
          /\ Append(versions, v) = VersionsUpTo(v)
      BY <2>1, NextMigration
    <2>3. schema' = After(v, schema) /\ versions' = VersionsUpTo(v) /\ Goto(s, "pick")
      BY <1>5, <2>2 DEF Apply
    <2> HIDE DEF v
    <2>4. v # 0 /\ FirstVersion = 3 /\ Expected = 15 /\ v \in 3..15
      BY <2>1 DEF Files, FirstVersion, Expected
    <2>5. CurrentVersion' = v
      BY <2>1, <2>3, VersionsFacts DEF CurrentVersion
    <2>6. objects' = SchemaAt(v)
      BY <2>2, <2>3, <2>4, <2>5
    <2>7. serving' = serving
      BY <2>1, <2>3 DEF Goto, TypeOK
    <2>8. /\ CurrentVersion < Expected
          /\ CurrentVersion' = IF CurrentVersion = 0 THEN FirstVersion ELSE CurrentVersion + 1
      <3>1. CurrentVersion = 0 \/ CurrentVersion \in 3..15
        BY AtVersion DEF Files, FirstVersion, Expected
      <3>2. QED
        BY <2>1, <2>4, <2>5, <3>1 DEF NextVersion
    <2> HIDE DEF objects, serving
    <2>9. objects' = [w \in {0} \cup Files |-> IF w = 0 THEN {} ELSE SchemaAt(w)][CurrentVersion']
      BY <2>1, <2>4, <2>5, <2>6, BuiltIs
    <2>10. QED
      BY <2>7, <2>8, <2>9 DEF Contract!Next, Contract!Migrate, objects, serving
  <1>6. \/ UNCHANGED <<schema, versions, stage>>
        \/ \E s \in Server :
             \/ UNCHANGED <<schema, versions>> /\ \E next \in Stage \ {"serving"} : Goto(s, next)
             \/ Listen(s) \/ CreateVersionTable(s) \/ Apply(s)
    <2>1. CASE StopDatabase \/ StartDatabase \/ SwitchSource \/ UNCHANGED vars
      BY <2>1 DEF StopDatabase, StartDatabase, SwitchSource, vars, database
    <2>2. ASSUME NEW s \in Server, Begin(s) \/ Kill(s) \/ (Start(s) /\ ~Listen(s)
                                     /\ ~CreateVersionTable(s) /\ ~Apply(s))
          PROVE  UNCHANGED <<schema, versions>> /\ \E next \in Stage \ {"serving"} : Goto(s, next)
      BY <2>2 DEF Start, Begin, FindReady, GiveUpWaiting, Ensure, Pick, OpenPool, StartScheduler,
         FailWithoutDatabase, Kill, GoDown, database, Stage, Starting
    <2>3. QED
      BY <2>1, <2>2 DEF Next, Start
  <1>7. QED
    BY <1>1, <1>2, <1>3, <1>4, <1>5, <1>6

\* The schema moves up one migration at a time and never back, a version says
\* what has been built, and a server takes requests at the last version only
\* (main.go, db.go): the detailed starts implement SchemaContract.
THEOREM ContractIsKept ==
  ASSUME Together = FALSE
  PROVE  Spec => ContractKept
  <1>1. StartupInv /\ StartupInv' /\ [Next]_vars => [Contract!Next]_(Contract!vars)
    BY ContractStep
  <1>2. QED
    BY <1>1, InitContract, StartupInvariance, PTL DEF Spec, ContractKept, Contract!Spec
==============================================================================
