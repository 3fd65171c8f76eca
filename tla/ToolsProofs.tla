----------------------------- MODULE ToolsProofs ----------------------------
(***************************************************************************)
(* What Merge saves is what the boot loader looks for (MergedIsGood), and  *)
(* what the catalogue of the OTA server offers (OfferedIsBuilt,            *)
(* OffersAreShown, CatalogueOnDisk, RemovedStaysAway): for areas, files    *)
(* and versions of every number and size, and any number of builds, edits  *)
(* and ends of the program.                                                *)
(***************************************************************************)
EXTENDS OtaCatalogue, FiniteSetTheorems, SequenceTheorems, TLAPS

-----------------------------------------------------------------------------
\* The largest of finitely many numbers.
LEMMA LeastNumber ==
  ASSUME NEW T \in SUBSET Nat, T # {}
  PROVE  \E n \in T : \A m \in T : n <= m
<1>1. IsWellFoundedOn(OpToRel(<, Nat), Nat)
  BY NatLessThanWellFounded
<1>2. PICK n \in T : \A m \in T : ~(<<m, n>> \in OpToRel(<, Nat))
  BY <1>1, WFMin
<1>3. \A m \in T : ~(m < n)
  BY <1>2 DEF OpToRel
<1> QED
  BY <1>3

HasMax(S) == \E m \in S : \A x \in S : x <= m

LEMMA FiniteHasMax ==
  ASSUME NEW S \in SUBSET Int, S # {}, IsFiniteSet(S)
  PROVE  HasMax(S)
<1> SUFFICES ASSUME ~HasMax(S) PROVE FALSE
  OBVIOUS
<1> DEFINE Bad(T) == T \in SUBSET S /\ T # {} /\ ~HasMax(T)
           Sizes  == {n \in Nat : \E T : Bad(T) /\ Cardinality(T) = n}
<1>1. \A T \in SUBSET S : IsFiniteSet(T) /\ Cardinality(T) \in Nat
  BY FS_Subset, FS_CardinalityType
<1>2. Bad(S) /\ Cardinality(S) \in Sizes
  BY <1>1
<1>3. PICK n \in Sizes : \A m \in Sizes : n <= m
  BY <1>2, LeastNumber
<1>4. PICK T : Bad(T) /\ Cardinality(T) = n
  BY <1>3
<1>5. PICK x : x \in T
  BY <1>4
<1> DEFINE R == T \ {x}
<1>6. R \in SUBSET S /\ Cardinality(R) = n - 1 /\ n \in Nat
  BY <1>1, <1>4, <1>5, FS_RemoveElement
<1>7. HasMax(T)
  <2>1. CASE R = {}
    <3>1. T = {x} /\ x \in Int
      BY <1>4, <1>5, <2>1
    <3> QED
      BY <3>1 DEF HasMax
  <2>2. CASE R # {}
    <3>1. HasMax(R)
      <4>1. SUFFICES ASSUME ~HasMax(R) PROVE FALSE
        OBVIOUS
      <4>2. Bad(R) /\ Cardinality(R) \in Nat
        BY <1>1, <1>6, <2>2, <4>1
      <4>3. n - 1 \in Sizes
        BY <1>6, <4>2
      <4> HIDE DEF Sizes
      <4> QED
        BY <1>3, <1>6, <4>3
    <3>2. PICK m \in R : \A y \in R : y <= m
      BY <3>1 DEF HasMax
    <3>3. m \in Int /\ x \in Int /\ m \in T /\ \A y \in T : y = x \/ y \in R
      BY <1>4, <1>5
    <3>4. \A y \in T : y \in Int
      BY <1>4
    <3>5. CASE x <= m
      BY <3>2, <3>3, <3>5 DEF HasMax
    <3>6. CASE m <= x
      <4>1. \A y \in T : y <= x
        BY <3>2, <3>3, <3>4, <3>6
      <4> QED
        BY <1>5, <4>1 DEF HasMax
    <3> QED
      BY <3>3, <3>5, <3>6
  <2> QED
    BY <2>1, <2>2
<1> QED
  BY <1>4, <1>7

LEMMA MaxOfFinite ==
  ASSUME NEW S \in SUBSET Int, S # {}, IsFiniteSet(S)
  PROVE  Max(S) \in S /\ \A x \in S : x <= Max(S)
<1>1. PICK m \in S : \A x \in S : m >= x
  BY FiniteHasMax DEF HasMax
<1> QED
  BY <1>1 DEF Max

\* Every version has its place among the items.
LEMMA ItemsOfAll ==
  ASSUME NEW S \in SUBSET Int, IsFiniteSet(S)
  PROVE  /\ \E T : Ascending(S) \in Seq(T)
         /\ S \subseteq Range(Ascending(S))
<1> DEFINE Below(v) == {w \in S : w < v}
           rank(v)  == Cardinality(Below(v))
           n        == Cardinality(S)
           item(i)  == CHOOSE v \in S : rank(v) = i - 1
<1>1. n \in Nat
  BY FS_CardinalityType
<1>2. ASSUME NEW v \in S
      PROVE  rank(v) \in Nat /\ rank(v) < n
  <2>1. Below(v) \in SUBSET S /\ Below(v) # S
    OBVIOUS
  <2> HIDE DEF Below
  <2>2. IsFiniteSet(Below(v)) /\ rank(v) <= n /\ rank(v) # n
    BY <2>1, FS_Subset
  <2>3. rank(v) \in Nat
    BY <2>2, FS_CardinalityType
  <2> QED
    BY <1>1, <2>2, <2>3
<1>3. ASSUME NEW v \in S, NEW u \in S, v < u
      PROVE  rank(v) # rank(u)
  <2>1. Below(v) \in SUBSET Below(u) /\ v \in Below(u) /\ v \notin Below(v) /\ Below(u) \in SUBSET S
    <3>1. \A w \in S : w \in Int
      OBVIOUS
    <3>2. \A w \in S : w < v => w < u
      BY <1>3, <3>1
    <3>3. ~(v < v)
      BY <3>1
    <3> QED
      BY <1>3, <3>2, <3>3, Zenon
  <2> HIDE DEF Below
  <2>2. IsFiniteSet(Below(u)) /\ Below(u) # Below(v)
    BY <2>1, FS_Subset
  <2> QED
    BY <2>1, <2>2, FS_Subset
<1>4. ASSUME NEW v \in S, NEW u \in S, rank(v) = rank(u)
      PROVE  v = u
  <2>1. v \in Int /\ u \in Int
    OBVIOUS
  <2> QED
    BY <1>3, <1>4, <2>1
<1>5. Ascending(S) = [i \in 1 .. n |-> item(i)]
  BY DEF Ascending
<1>6. ASSUME NEW v \in S
      PROVE  v \in Range(Ascending(S))
  <2> DEFINE i == rank(v) + 1
  <2> HIDE DEF rank, n
  <2>1. i \in 1 .. n /\ rank(v) = i - 1
    BY <1>1, <1>2
  <2> HIDE DEF i
  <2>2. item(i) = v
    BY <1>4, <2>1
  <2> QED
    BY <1>5, <2>1, <2>2 DEF Range
<1>7. Ascending(S) \in Seq({item(i) : i \in 1 .. n})
  <2> HIDE DEF item, n
  <2> QED
    BY <1>1, <1>5
<1> QED
  BY <1>6, <1>7

-----------------------------------------------------------------------------
\* The metadata of an image, and what is read from them.
LEMMA ImageTypes ==
  ASSUME NEW image \in Images
  PROVE  image \in Seq(Byte) /\ Len(image) \in Nat /\ Crc(image) \in Nat
<1>1. image \in Seq(Byte) /\ Crc(image) \in Word
  BY ImagesAssumption
<1>2. Crc(image) \in Nat
  BY <1>1 DEF Word
<1>3. Len(image) \in Nat
  BY <1>1, LenProperties
<1> QED
  BY <1>1, <1>2, <1>3

LEMMA VersionTypes ==
  /\ \A v \in AppVersions : v \in Nat
  /\ \A V \in SUBSET AppVersions : V \in SUBSET Int /\ IsFiniteSet(V)
<1>1. \A v \in AppVersions : v \in Nat
  BY ToolsAssumption DEF Word
<1>2. ByteBase * ByteBase - 1 \in Int /\ 0 \in Int
  BY ToolsAssumption
<1>3. IsFiniteSet(Word)
  BY <1>2, FS_Interval DEF Word
<1>4. \A V \in SUBSET AppVersions : IsFiniteSet(V)
  BY <1>3, FS_Subset, ToolsAssumption
<1> QED
  BY <1>1, <1>4

LEMMA WordParts ==
  ASSUME NEW n \in Nat
  PROVE  /\ n \div ByteBase \in Nat /\ n % ByteBase \in Nat
         /\ ByteBase * (n \div ByteBase) + (n % ByteBase) = n
  BY ToolsAssumption, SMT

LEMMA WordWritten ==
  ASSUME NEW n \in Nat
  PROVE  rev(Little(n)) = <<n \div ByteBase, n % ByteBase>>
<1> DEFINE a == n % ByteBase
           b == n \div ByteBase
<1> HIDE DEF a, b
<1>1. Reverse(<<a, b>>) = [i \in 1 .. 2 |-> <<a, b>>[(2 - i) + 1]]
  BY DEF Reverse
<1>2. Reverse(<<a, b>>) = <<b, a>>
  BY <1>1
<1> QED
  BY <1>2 DEF rev, Little, a, b

LEMMA InfoIs ==
  ASSUME NEW image \in Images, NEW version \in AppVersions
  PROVE  LET mdat == AppInfo(image, version)
         IN  /\ mdat \in Seq(Nat) /\ Len(mdat) = InfoLen
             /\ ByteBase * mdat[1] + mdat[2] = Len(image)
             /\ ByteBase * mdat[3] + mdat[4] = Crc(image)
             /\ ByteBase * mdat[5] + mdat[6] = version
<1> DEFINE hi(n) == n \div ByteBase
           lo(n) == n % ByteBase
           two(n) == <<hi(n), lo(n)>>
           l == Len(image)
           c == Crc(image)
<1>1. l \in Nat /\ c \in Nat /\ version \in Nat
  BY ImageTypes, VersionTypes
<1>2. \A n \in Nat : hi(n) \in Nat /\ lo(n) \in Nat /\ ByteBase * hi(n) + lo(n) = n
  BY WordParts
<1>3. AppInfo(image, version) = (two(l) \o two(c)) \o two(version)
  BY <1>1, WordWritten DEF AppInfo
<1> HIDE DEF l, c, hi, lo
<1>4. \A n \in Nat : two(n) \in Seq(Nat) /\ Len(two(n)) = 2 /\ two(n)[1] = hi(n) /\ two(n)[2] = lo(n)
  BY <1>2
<1> HIDE DEF two
<1>5. /\ two(l) \o two(c) \in Seq(Nat)
      /\ Len(two(l) \o two(c)) = Len(two(l)) + Len(two(c))
      /\ \A i \in 1 .. Len(two(l)) + Len(two(c)) :
           (two(l) \o two(c))[i] = IF i <= Len(two(l)) THEN two(l)[i] ELSE two(c)[i - Len(two(l))]
  BY <1>1, <1>4, ConcatProperties
<1>6. Len(two(l)) = 2 /\ Len(two(c)) = 2 /\ Len(two(version)) = 2
  BY <1>1, <1>4
<1> DEFINE four == two(l) \o two(c)
<1>7. /\ four \in Seq(Nat) /\ Len(four) = 4
      /\ four[1] = hi(l) /\ four[2] = lo(l) /\ four[3] = hi(c) /\ four[4] = lo(c)
  <2>1. two(l)[1] = hi(l) /\ two(l)[2] = lo(l) /\ two(c)[1] = hi(c) /\ two(c)[2] = lo(c)
    BY <1>1, <1>4
  <2> DEFINE x == two(l)
             y == two(c)
  <2> HIDE DEF x, y
  <2>2. four = x \o y
    BY DEF x, y
  <2> HIDE DEF four
  <2>3. four \in Seq(Nat) /\ Len(four) = 4
    BY <1>5, <1>6, <2>2 DEF x, y
  <2>4. \A i \in 1 .. 4 : four[i] = IF i <= 2 THEN x[i] ELSE y[i - 2]
    BY <1>5, <1>6, <2>2 DEF x, y
  <2>5. four[1] = x[1] /\ four[2] = x[2] /\ four[3] = y[1] /\ four[4] = y[2]
    BY <2>4
  <2> QED
    BY <2>1, <2>3, <2>5 DEF x, y
<1> HIDE DEF four
<1> DEFINE six == four \o two(version)
<1>8. /\ six \in Seq(Nat)
      /\ Len(six) = Len(four) + Len(two(version))
      /\ \A i \in 1 .. Len(four) + Len(two(version)) :
           six[i] = IF i <= Len(four) THEN four[i] ELSE two(version)[i - Len(four)]
  BY <1>1, <1>4, <1>7, ConcatProperties
<1> HIDE DEF six
<1>9. /\ six \in Seq(Nat) /\ Len(six) = 6
      /\ six[1] = hi(l) /\ six[2] = lo(l) /\ six[3] = hi(c) /\ six[4] = lo(c)
      /\ six[5] = hi(version) /\ six[6] = lo(version)
  BY <1>1, <1>4, <1>6, <1>7, <1>8
<1>10. AppInfo(image, version) = six
  BY <1>3 DEF six, four
<1> QED
  BY <1>1, <1>2, <1>9, <1>10 DEF InfoLen, l, c

LEMMA FieldsAre ==
  ASSUME NEW mdat \in Seq(Nat), Len(mdat) = InfoLen
  PROVE  /\ SizeIn(mdat) = ByteBase * mdat[1] + mdat[2]
         /\ CrcIn(mdat) = ByteBase * mdat[3] + mdat[4]
         /\ VersionIn(mdat) = ByteBase * mdat[5] + mdat[6]
<1>1. \A k \in 1 .. 6 : mdat[k] \in Nat
  <2>1. \A k \in 1 .. 6 : k \in 1 .. Len(mdat)
    BY DEF InfoLen
  <2> QED
    BY <2>1, ElementOfSeq
<1>2. ASSUME NEW i \in 1 .. 3
      PROVE  Field(mdat, i) = ByteBase * mdat[2 * i - 1] + mdat[2 * i]
  <2> DEFINE s == SubSeq(mdat, 2 * i - 1, 2 * i)
  <2>1. \A k \in 2 * i - 1 .. 2 * i : mdat[k] \in Nat
    <3>1. \A k \in 2 * i - 1 .. 2 * i : k \in 1 .. 6
      OBVIOUS
    <3> QED
      BY <1>1, <3>1
  <2>2. /\ s \in Seq(Nat) /\ Len(s) = IF 2 * i - 1 <= 2 * i THEN 2 * i - (2 * i - 1) + 1 ELSE 0
        /\ \A k \in 1 .. 2 * i - (2 * i - 1) + 1 : s[k] = mdat[2 * i - 1 + k - 1]
    <3>1. 2 * i - 1 \in Int /\ 2 * i \in Int
      OBVIOUS
    <3> QED
      BY <2>1, <3>1, SubSeqProperties
  <2> HIDE DEF s
  <2>3. 2 * i - (2 * i - 1) + 1 = 2 /\ 2 * i - 1 + 1 - 1 = 2 * i - 1 /\ 2 * i - 1 + 2 - 1 = 2 * i
    OBVIOUS
  <2>4. Len(s) = 2 /\ s[1] = mdat[2 * i - 1] /\ s[2] = mdat[2 * i]
    <3>1. 2 * i - 1 <= 2 * i /\ 1 \in 1 .. 2 /\ 2 \in 1 .. 2
      OBVIOUS
    <3>2. Len(s) = 2
      BY <2>2, <2>3, <3>1
    <3>3. \A k \in 1 .. 2 : s[k] = mdat[2 * i - 1 + k - 1]
      BY <2>2, <2>3
    <3> QED
      BY <2>3, <3>1, <3>2, <3>3
  <2>5. Reverse(s) = [k \in 1 .. 2 |-> s[(2 - k) + 1]]
    BY <2>4 DEF Reverse
  <2>6. Reverse(s)[1] = s[2] /\ Reverse(s)[2] = s[1]
    BY <2>5
  <2>7. Field(mdat, i) = s[2] + ByteBase * s[1]
    BY <2>6 DEF Field, Value, rev, s
  <2>8. mdat[2 * i - 1] \in Nat /\ mdat[2 * i] \in Nat
    BY <2>1
  <2> QED
    BY <2>4, <2>7, <2>8, ToolsAssumption
<1>3. /\ SizeIn(mdat) = ByteBase * mdat[2 * 1 - 1] + mdat[2 * 1]
      /\ CrcIn(mdat) = ByteBase * mdat[2 * 2 - 1] + mdat[2 * 2]
      /\ VersionIn(mdat) = ByteBase * mdat[2 * 3 - 1] + mdat[2 * 3]
  BY <1>2 DEF SizeIn, CrcIn, VersionIn
<1> QED
  BY <1>3

-----------------------------------------------------------------------------
(***************************************************************************)
(* The catalogue.  An entry says version, size and CRC of one build, in    *)
(* the configurations and in memory; the file of an entry is that build    *)
(* only as far as size and CRC tell.                                       *)
(***************************************************************************)
Describing(info, v, bs) ==
  \E image \in Images : /\ <<v, image>> \in bs
                        /\ info.version = v /\ info.size = Len(image) /\ info.crc = Crc(image)

\* Metadata are those of a build, or cut short; the other files are what the
\* builds have made or had begun to make.
FilesGood(fs, bs) ==
  /\ ("meta" \in DOMAIN fs /\ Len(fs["meta"]) = InfoLen) =>
       \E b \in bs : fs["meta"] = AppInfo(b[2], b[1])
  /\ \A n \in DOMAIN fs \ {"meta"} : fs[n] \in Images \cup OtherFiles

\* No configuration names a version newer than the latest it announces.
ConfGood(conf, bs) ==
  /\ DOMAIN conf.apps \subseteq AppVersions /\ conf.latest_version \in Nat
  /\ \A v \in DOMAIN conf.apps : Describing(conf.apps[v], v, bs) /\ v <= conf.latest_version

AppsGood(apps, latest, bs) ==
  /\ DOMAIN apps \subseteq AppVersions /\ latest \in Nat
  /\ \A v \in DOMAIN apps : /\ Describing(apps[v].info, v, bs) /\ v <= latest
                            /\ apps[v].bin \in Images \cup OtherFiles
                            /\ Checks(apps[v].info, apps[v].bin)

\* The items: every version has one.
ItemsGood(apps, items) ==
  /\ \E T : items \in Seq(T)
  /\ DOMAIN apps \subseteq Range(items)

\* What CatalogueOnDisk says, of any state of the files.
OnDisk(apps, conf, fs, sp) ==
  /\ \A v \in DOMAIN apps \ sp :
       /\ v \in DOMAIN conf.apps /\ conf.apps[v] = apps[v].info
       /\ FileOf(v) \in DOMAIN fs
       /\ apps[v] = [info |-> conf.apps[v], bin |-> fs[FileOf(v)]]
  /\ \A v \in DOMAIN conf.apps : Good(conf.apps[v], fs) => v \in DOMAIN apps \cup sp

\* What was taken out with its file has none, so no configuration brings it back.
Gone(rs, us, fs, apps) ==
  /\ rs \subseteq AppVersions
  /\ \A v \in rs \ us : FileOf(v) \notin DOMAIN fs /\ v \notin DOMAIN apps

HistoryGood(bs) == bs \subseteq AppVersions \X Images

CatalogueInv ==
  /\ app_hex \in AppHexes
  /\ HistoryGood(built) /\ FilesGood(files, built)
  /\ Default \in DOMAIN confs /\ source \in DOMAIN confs
  /\ \A path \in DOMAIN confs : ConfGood(confs[path], built)
  /\ AppsGood(ota_apps, ota_latest_version, built)
  /\ ItemsGood(ota_apps, lstApps)
  /\ OnDisk(ota_apps, confs[source], files, spoiled)
  /\ Gone(removed, undeleted, files, ota_apps)

LEMMA FilesApart ==
  \A v \in AppVersions : /\ FileOf(v) # "meta" /\ FileOf(v) # "app"
                         /\ \A w \in AppVersions : FileOf(v) = FileOf(w) => v = w
BY FilesAssumption

LEMMA WithIs ==
  ASSUME NEW f, NEW x, NEW y
  PROVE  /\ DOMAIN With(f, x, y) = DOMAIN f \cup {x}
         /\ With(f, x, y)[x] = y
         /\ \A z \in DOMAIN f : z # x => With(f, x, y)[z] = f[z]
BY DEF With

\* Size and CRC tell the image of a build.
LEMMA DescribedIsBuilt ==
  ASSUME NEW bs, NEW info, NEW v, NEW bin \in Images \cup OtherFiles,
         Describing(info, v, bs), Checks(info, bin)
  PROVE  <<v, bin>> \in bs /\ info.version = v
<1>1. PICK image \in Images : /\ <<v, image>> \in bs
                              /\ info.version = v /\ info.size = Len(image) /\ info.crc = Crc(image)
  BY DEF Describing
<1>2. Len(image) = Len(bin) /\ Crc(image) = Crc(bin)
  BY <1>1 DEF Checks
<1>3. image = bin
  BY <1>2, CrcAssumption
<1> QED
  BY <1>1, <1>3

\* What is loaded from a good configuration is good.
LEMMA LoadedGood ==
  ASSUME NEW fs, NEW bs, NEW conf, FilesGood(fs, bs), ConfGood(conf, bs)
  PROVE  LET apps == Loaded(conf, fs)
         IN  /\ AppsGood(apps, conf.latest_version, bs)
             /\ ItemsGood(apps, Ascending(DOMAIN apps))
             /\ OnDisk(apps, conf, fs, {})
             /\ \A v \in AppVersions : FileOf(v) \notin DOMAIN fs => v \notin DOMAIN apps
<1> DEFINE apps == Loaded(conf, fs)
<1>1. /\ DOMAIN apps = {w \in DOMAIN conf.apps : Good(conf.apps[w], fs)}
      /\ \A v \in DOMAIN apps : apps[v] = [info |-> conf.apps[v], bin |-> fs[FileOf(v)]]
  BY DEF Loaded
<1> HIDE DEF apps
<1>2. /\ DOMAIN conf.apps \subseteq AppVersions /\ conf.latest_version \in Nat
      /\ \A v \in DOMAIN conf.apps : Describing(conf.apps[v], v, bs) /\ v <= conf.latest_version
  BY DEF ConfGood
<1>3. \A v \in DOMAIN conf.apps : conf.apps[v].version = v
  BY <1>2 DEF Describing
<1>4. \A v \in DOMAIN conf.apps :
        Good(conf.apps[v], fs) <=> FileOf(v) \in DOMAIN fs /\ Checks(conf.apps[v], fs[FileOf(v)])
  BY <1>3 DEF Good
<1>5. \A v \in DOMAIN apps : FileOf(v) \in DOMAIN fs /\ FileOf(v) # "meta"
  BY <1>1, <1>2, <1>4, FilesApart
<1>6. \A v \in DOMAIN apps : fs[FileOf(v)] \in Images \cup OtherFiles
  BY <1>5 DEF FilesGood
<1>7. AppsGood(apps, conf.latest_version, bs)
  <2>1. ASSUME NEW v \in DOMAIN apps
        PROVE  apps[v].info = conf.apps[v] /\ apps[v].bin = fs[FileOf(v)]
    <3> DEFINE i == conf.apps[v]
               b == fs[FileOf(v)]
    <3>1. apps[v] = [info |-> i, bin |-> b]
      BY <1>1
    <3> HIDE DEF i, b
    <3>2. apps[v].info = i /\ apps[v].bin = b
      BY <3>1
    <3> QED
      BY <3>2 DEF i, b
  <2> QED
    BY <1>1, <1>2, <1>4, <1>6, <2>1 DEF AppsGood
<1>8. ItemsGood(apps, Ascending(DOMAIN apps))
  <2>1. DOMAIN apps \in SUBSET AppVersions
    BY <1>1, <1>2
  <2>2. DOMAIN apps \in SUBSET Int /\ IsFiniteSet(DOMAIN apps)
    BY <2>1, VersionTypes
  <2> QED
    BY <2>2, ItemsOfAll DEF ItemsGood
<1>9. OnDisk(apps, conf, fs, {})
  BY <1>1, <1>5 DEF OnDisk
<1>10. \A v \in AppVersions : FileOf(v) \notin DOMAIN fs => v \notin DOMAIN apps
  BY <1>5
<1> QED
  BY <1>7, <1>8, <1>9, <1>10 DEF apps

\* What is saved of a good catalogue is good.
LEMMA SavedGood ==
  ASSUME NEW apps, NEW latest, NEW bs, AppsGood(apps, latest, bs)
  PROVE  LET conf == Saved(apps, latest)
         IN  /\ ConfGood(conf, bs) /\ DOMAIN conf.apps = DOMAIN apps
             /\ \A v \in DOMAIN apps : conf.apps[v] = apps[v].info
<1> DEFINE conf == Saved(apps, latest)
<1>1. /\ DOMAIN conf.apps = DOMAIN apps /\ conf.latest_version = latest
      /\ \A v \in DOMAIN apps : conf.apps[v] = apps[v].info
  BY DEF Saved
<1> HIDE DEF conf
<1>2. ConfGood(conf, bs)
  BY <1>1 DEF ConfGood, AppsGood
<1> QED
  BY <1>1, <1>2 DEF conf

\* Saving changes one configuration, the one the catalogue is then compared to.
LEMMA SavedConfs ==
  ASSUME NEW cs, NEW bs, NEW path, NEW apps, NEW latest, NEW new,
         \A p \in DOMAIN cs : ConfGood(cs[p], bs), AppsGood(apps, latest, bs),
         Default \in DOMAIN cs, new = With(cs, path, Saved(apps, latest))
  PROVE  /\ Default \in DOMAIN new /\ path \in DOMAIN new
         /\ \A p \in DOMAIN new : ConfGood(new[p], bs)
         /\ new[path] = Saved(apps, latest)
<1> DEFINE saved == Saved(apps, latest)
<1>1. ConfGood(saved, bs)
  BY SavedGood
<1> HIDE DEF saved
<1>2. new = With(cs, path, saved)
  BY DEF saved
<1>3. /\ DOMAIN new = DOMAIN cs \cup {path} /\ new[path] = saved
      /\ \A p \in DOMAIN cs : p # path => new[p] = cs[p]
  BY <1>2 DEF With
<1>4. \A p \in DOMAIN new : ConfGood(new[p], bs)
  BY <1>1, <1>3
<1> QED
  BY <1>3, <1>4 DEF saved

-----------------------------------------------------------------------------
\* More builds, and other files written, change nothing in the folder.
LEMMA MoreBuilt ==
  ASSUME NEW bs, NEW more, bs \subseteq more
  PROVE  /\ \A conf : ConfGood(conf, bs) => ConfGood(conf, more)
         /\ \A apps, latest : AppsGood(apps, latest, bs) => AppsGood(apps, latest, more)
<1>1. \A info, v : Describing(info, v, bs) => Describing(info, v, more)
  BY DEF Describing
<1> QED
  BY <1>1 DEF ConfGood, AppsGood

LEMMA OnDiskSame ==
  ASSUME NEW apps, NEW conf, NEW fs, NEW new, NEW sp, NEW bs,
         OnDisk(apps, conf, fs, sp), ConfGood(conf, bs),
         \A v \in AppVersions : /\ FileOf(v) \in DOMAIN new <=> FileOf(v) \in DOMAIN fs
                                /\ FileOf(v) \in DOMAIN fs => new[FileOf(v)] = fs[FileOf(v)]
  PROVE  OnDisk(apps, conf, new, sp)
<1>1. \A v \in DOMAIN conf.apps : v \in AppVersions /\ conf.apps[v].version = v
  BY DEF ConfGood, Describing
<1>2. \A v \in DOMAIN conf.apps : Good(conf.apps[v], new) => Good(conf.apps[v], fs)
  BY <1>1 DEF Good
<1>3. ASSUME NEW v \in DOMAIN apps \ sp
      PROVE  /\ v \in DOMAIN conf.apps /\ conf.apps[v] = apps[v].info
             /\ FileOf(v) \in DOMAIN new
             /\ apps[v] = [info |-> conf.apps[v], bin |-> new[FileOf(v)]]
  BY <1>1, <1>3 DEF OnDisk
<1>4. \A v \in DOMAIN conf.apps : Good(conf.apps[v], new) => v \in DOMAIN apps \cup sp
  BY <1>2 DEF OnDisk
<1> QED
  BY <1>3, <1>4 DEF OnDisk

LEMMA StartGood ==
  ASSUME ImageInit, CatalogueInit
  PROVE  CatalogueInv
<1>1. app_hex \in AppHexes /\ DOMAIN files = {} /\ built = {} /\ removed = {} /\ undeleted = {} /\ spoiled = {}
  BY DEF ImageInit, CatalogueInit, NoFiles
<1>2. ota_apps = NoApps /\ lstApps = <<>> /\ ota_latest_version = NoVersion /\ source = Default
  BY DEF CatalogueInit
<1>3. DOMAIN NoApps = {} /\ NoVersion \in Nat
  BY DEF NoApps, NoVersion
<1>4. AppsGood(NoApps, NoVersion, {})
  BY <1>3 DEF AppsGood
<1>5. /\ ConfGood(Saved(NoApps, NoVersion), {})
      /\ DOMAIN Saved(NoApps, NoVersion).apps = {}
  BY <1>3, <1>4, SavedGood
<1>6. DOMAIN confs = {Default} /\ confs[Default] = Saved(NoApps, NoVersion)
  BY DEF CatalogueInit
<1>7. FilesGood(files, {})
  BY <1>1 DEF FilesGood
<1>8. ItemsGood(NoApps, <<>>)
  <2>1. <<>> \in Seq(Nat)
    OBVIOUS
  <2> QED
    BY <1>3, <2>1 DEF ItemsGood
<1>9. OnDisk(NoApps, confs[Default], files, {})
  BY <1>3, <1>5, <1>6 DEF OnDisk
<1>10. Gone({}, {}, files, NoApps) /\ HistoryGood({})
  BY DEF Gone, HistoryGood
<1> QED
  BY <1>1, <1>2, <1>4, <1>5, <1>6, <1>7, <1>8, <1>9, <1>10 DEF CatalogueInv

\* A build writes metadata and image, each whole or not, and no file of the
\* folder.
LEMMA BuildGood ==
  ASSUME CatalogueInv, Build
  PROVE  CatalogueInv'
<1>1. PICK fill \in Fillers, version \in AppVersions :
        /\ hex2metabin(fill, version)
        /\ built' = built \cup {<<version, BinOf(app_hex.snippets, fill)>>}
  BY DEF Build
<1> DEFINE bin  == BinOf(app_hex.snippets, fill)
           info == AppInfo(bin, version)
<1>2. bin \in Images /\ app_hex' = app_hex
  BY <1>1 DEF hex2metabin, Images, CatalogueInv
<1>3. CutShort(bin) \in OtherFiles /\ Len(info) = InfoLen /\ Len(CutShort(info)) # InfoLen
  <2>1. info \in Seq(Nat) /\ Len(info) = 6
    BY <1>2, InfoIs DEF InfoLen
  <2> HIDE DEF info
  <2>2. \A i \in 1 .. 5 : info[i] \in Nat
    <3>1. \A i \in 1 .. 5 : i \in 1 .. Len(info)
      BY <2>1
    <3> QED
      BY <2>1, <3>1, ElementOfSeq
  <2>3. Len(SubSeq(info, 1, 5)) = IF 1 <= 5 THEN 5 - 1 + 1 ELSE 0
    BY <2>2, SubSeqProperties
  <2>4. Len(SubSeq(info, 1, Len(info) - 1)) = 5
    <3> DEFINE n == Len(info)
               l(k) == Len(SubSeq(info, 1, k))
    <3> HIDE DEF n, l
    <3>1. n = 6
      BY <2>1 DEF n
    <3>2. l(5) = IF 1 <= 5 THEN 5 - 1 + 1 ELSE 0
      BY <2>3 DEF l
    <3>3. n - 1 = 5 /\ l(5) = 5
      BY <3>1, <3>2
    <3>4. l(n - 1) = 5
      BY <3>3
    <3> QED
      BY <3>4, Zenon DEF n, l
  <2>5. Len(info) = InfoLen /\ Len(CutShort(info)) # InfoLen
    <3> DEFINE n == Len(info)
               m == Len(CutShort(info))
    <3> HIDE DEF n, m
    <3>1. n = 6 /\ m = 5
      BY <2>1, <2>4, Zenon DEF n, m, CutShort
    <3>2. n = InfoLen /\ m # InfoLen
      BY <3>1 DEF InfoLen
    <3> QED
      BY <3>2, Zenon DEF n, m
  <2>6. CutShort(bin) \in OtherFiles
    BY <1>2 DEF OtherFiles
  <2> QED
    BY <2>5, <2>6
<1>4. \/ files' = With(With(files, "meta", info), "app", bin)
      \/ files' = With(files, "meta", CutShort(info))
      \/ files' = With(files, "meta", info)
      \/ files' = With(With(files, "meta", info), "app", CutShort(bin))
  BY <1>1 DEF hex2metabin, Written
<1> HIDE DEF bin, info
<1>5. /\ DOMAIN files' \subseteq DOMAIN files \cup {"meta", "app"}
      /\ DOMAIN files \subseteq DOMAIN files'
      /\ "meta" \in DOMAIN files' /\ files'["meta"] \in {info, CutShort(info)}
      /\ "app" \in DOMAIN files' => files'["app"] \in {bin, CutShort(bin)}
                                     \/ ("app" \in DOMAIN files /\ files'["app"] = files["app"])
      /\ \A n \in DOMAIN files : n # "meta" /\ n # "app" => files'[n] = files[n]
  <2> DEFINE meta(x) == With(files, "meta", x)
             both(x) == With(meta(info), "app", x)
  <2>1. \A x : /\ DOMAIN meta(x) = DOMAIN files \cup {"meta"} /\ meta(x)["meta"] = x
               /\ \A n \in DOMAIN files : n # "meta" => meta(x)[n] = files[n]
    BY DEF With
  <2> HIDE DEF meta
  <2>2. \A x : /\ DOMAIN both(x) = DOMAIN meta(info) \cup {"app"} /\ both(x)["app"] = x
               /\ \A n \in DOMAIN meta(info) : n # "app" => both(x)[n] = meta(info)[n]
    BY DEF With
  <2> HIDE DEF both
  <2>3. "meta" # "app"
    OBVIOUS
  <2>4. \/ files' = both(bin) \/ files' = both(CutShort(bin))
        \/ files' = meta(CutShort(info)) \/ files' = meta(info)
    BY <1>4 DEF meta, both
  <2>5. CASE \E x \in {bin, CutShort(bin)} : files' = both(x)
    BY <2>1, <2>2, <2>3, <2>5
  <2>6. CASE \E x \in {info, CutShort(info)} : files' = meta(x)
    BY <2>1, <2>3, <2>6
  <2> QED
    BY <2>4, <2>5, <2>6
<1>6. FilesGood(files', built')
  <2>1. Len(files'["meta"]) = InfoLen => files'["meta"] = AppInfo(bin, version)
    BY <1>3, <1>5 DEF info
  <2>2. <<version, bin>> \in built'
    BY <1>1 DEF bin
  <2>3. ASSUME NEW n \in DOMAIN files' \ {"meta"}
        PROVE  files'[n] \in Images \cup OtherFiles
    BY <1>2, <1>3, <1>5 DEF FilesGood, CatalogueInv
  <2> DEFINE b == <<version, bin>>
  <2>4. b \in built' /\ b[2] = bin /\ b[1] = version
    BY <2>2
  <2> QED
    BY <2>1, <2>3, <2>4 DEF FilesGood
<1>7. built \subseteq built' /\ HistoryGood(built')
  <2>1. HistoryGood(built)
    BY DEF CatalogueInv
  <2> QED
    BY <1>1, <1>2, <2>1 DEF HistoryGood, bin
<1>8. \A v \in AppVersions : /\ FileOf(v) \in DOMAIN files' <=> FileOf(v) \in DOMAIN files
                             /\ FileOf(v) \in DOMAIN files => files'[FileOf(v)] = files[FileOf(v)]
  BY <1>5, FilesApart
<1>9. UNCHANGED <<ota_apps, lstApps, ota_latest_version, confs, removed, undeleted, spoiled, source>>
  BY DEF Build
<1>10. /\ \A path \in DOMAIN confs : ConfGood(confs[path], built')
       /\ AppsGood(ota_apps, ota_latest_version, built')
  BY <1>7, MoreBuilt DEF CatalogueInv
<1>11. OnDisk(ota_apps, confs[source], files', spoiled)
  BY <1>8, OnDiskSame DEF CatalogueInv
<1>12. Gone(removed, undeleted, files', ota_apps)
  BY <1>8 DEF Gone, CatalogueInv
<1> QED
  BY <1>2, <1>6, <1>7, <1>9, <1>10, <1>11, <1>12 DEF CatalogueInv

\* A configuration loaded: what is in memory is what is on disk, and what was
\* taken out has no file.
LEMMA LoadGood ==
  ASSUME CatalogueInv, NEW path \in DOMAIN confs, loadOtaConfig(path, files', confs),
         app_hex' = app_hex, built' = built, confs' = confs, FilesGood(files', built),
         removed' \subseteq AppVersions, \A v \in removed' \ undeleted' : FileOf(v) \notin DOMAIN files'
  PROVE  CatalogueInv'
<1> DEFINE conf == confs[path]
           apps == Loaded(conf, files')
<1>1. /\ ota_apps' = apps /\ lstApps' = Ascending(DOMAIN ota_apps')
      /\ ota_latest_version' = conf.latest_version
      /\ source' = path /\ spoiled' = {}
  BY DEF loadOtaConfig
<1>2. ConfGood(conf, built)
  BY DEF CatalogueInv
<1> HIDE DEF conf
<1>3. /\ AppsGood(apps, conf.latest_version, built)
      /\ ItemsGood(apps, Ascending(DOMAIN apps))
      /\ OnDisk(apps, conf, files', {})
      /\ \A v \in AppVersions : FileOf(v) \notin DOMAIN files' => v \notin DOMAIN apps
  BY <1>2, LoadedGood
<1> HIDE DEF apps
<1>4. Gone(removed', undeleted', files', apps)
  BY <1>3 DEF Gone
<1>5. confs'[source'] = conf
  BY <1>1 DEF conf
<1> QED
  BY <1>1, <1>3, <1>4, <1>5 DEF CatalogueInv

LEMMA RestartGood ==
  ASSUME CatalogueInv, Restart
  PROVE  CatalogueInv'
<1>1. /\ loadOtaConfig(Default, files, confs)
      /\ app_hex' = app_hex /\ built' = built /\ confs' = confs /\ removed' = removed
      /\ undeleted' = undeleted /\ files' = files
  BY DEF Restart, Started, imageVars
<1>2. removed \subseteq AppVersions /\ \A v \in removed \ undeleted : FileOf(v) \notin DOMAIN files
  BY DEF CatalogueInv, Gone
<1>3. FilesGood(files, built) /\ Default \in DOMAIN confs
  BY DEF CatalogueInv
<1> QED
  BY <1>1, <1>2, <1>3, LoadGood

LEMMA SlotLoadGood ==
  ASSUME CatalogueInv, slotLoadOtaConfig
  PROVE  CatalogueInv'
<1>1. PICK path \in DOMAIN confs : loadOtaConfig(path, files, confs)
  BY DEF slotLoadOtaConfig
<1>2. /\ app_hex' = app_hex /\ built' = built /\ confs' = confs /\ files' = files
      /\ removed' = removed /\ undeleted' = undeleted
  BY DEF slotLoadOtaConfig, imageVars
<1>3. removed \subseteq AppVersions /\ \A v \in removed \ undeleted : FileOf(v) \notin DOMAIN files
  BY DEF CatalogueInv, Gone
<1>4. FilesGood(files, built)
  BY DEF CatalogueInv
<1> QED
  BY <1>1, <1>2, <1>3, <1>4, LoadGood

\* The catalogue saved in any configuration: that one would give it again.
LEMMA SaveOnDisk ==
  ASSUME NEW apps, NEW latest, NEW bs, NEW fs, NEW sp, AppsGood(apps, latest, bs),
         \A v \in DOMAIN apps \ sp :
           /\ FileOf(v) \in DOMAIN fs
           /\ apps[v] = [info |-> apps[v].info, bin |-> fs[FileOf(v)]]
  PROVE  OnDisk(apps, Saved(apps, latest), fs, sp)
<1>1. /\ DOMAIN Saved(apps, latest).apps = DOMAIN apps
      /\ \A v \in DOMAIN apps : Saved(apps, latest).apps[v] = apps[v].info
  BY SavedGood
<1> QED
  BY <1>1 DEF OnDisk

LEMMA SlotSaveGood ==
  ASSUME CatalogueInv, slotSaveOtaConfig
  PROVE  CatalogueInv'
<1>1. PICK path \in Paths : saveOtaConfig(path, ota_apps, ota_latest_version)
  BY DEF slotSaveOtaConfig
<1>2. /\ UNCHANGED <<ota_apps, lstApps, ota_latest_version, built, removed, undeleted, spoiled>>
      /\ files' = files /\ app_hex' = app_hex
  BY DEF slotSaveOtaConfig, imageVars
<1>3. confs' = With(confs, path, Saved(ota_apps, ota_latest_version)) /\ source' = path
  BY <1>1 DEF saveOtaConfig
<1>4. /\ Default \in DOMAIN confs' /\ source' \in DOMAIN confs'
      /\ \A p \in DOMAIN confs' : ConfGood(confs'[p], built)
      /\ confs'[source'] = Saved(ota_apps, ota_latest_version)
  BY <1>3, SavedConfs DEF CatalogueInv
<1>5. \A v \in DOMAIN ota_apps \ spoiled :
        /\ FileOf(v) \in DOMAIN files
        /\ ota_apps[v] = [info |-> ota_apps[v].info, bin |-> files[FileOf(v)]]
  BY DEF CatalogueInv, OnDisk
<1>6. OnDisk(ota_apps, confs'[source'], files, spoiled)
  BY <1>4, <1>5, SaveOnDisk DEF CatalogueInv
<1> QED
  BY <1>2, <1>4, <1>6 DEF CatalogueInv

-----------------------------------------------------------------------------
\* Metadata that are whole are those of a build.
LEMMA MetaOfBuild ==
  ASSUME NEW fs, NEW bs, HistoryGood(bs), FilesGood(fs, bs),
         "meta" \in DOMAIN fs, Len(fs["meta"]) = InfoLen
  PROVE  LET info == InfoOf(fs["meta"])
         IN  /\ info.version \in AppVersions /\ Describing(info, info.version, bs)
             /\ fs["meta"] \in OtherFiles
<1>1. PICK b \in bs : fs["meta"] = AppInfo(b[2], b[1])
  BY DEF FilesGood
<1> DEFINE image == b[2]
           v     == b[1]
           mdat  == AppInfo(image, v)
<1>2. image \in Images /\ v \in AppVersions /\ b = <<v, image>>
  BY DEF HistoryGood
<1>3. fs["meta"] = mdat /\ <<v, image>> \in bs
  BY <1>1, <1>2
<1>4. mdat \in OtherFiles
  BY <1>2 DEF OtherFiles
<1> HIDE DEF image, v
<1>5. /\ mdat \in Seq(Nat) /\ Len(mdat) = InfoLen
      /\ ByteBase * mdat[1] + mdat[2] = Len(image)
      /\ ByteBase * mdat[3] + mdat[4] = Crc(image)
      /\ ByteBase * mdat[5] + mdat[6] = v
  BY <1>2, InfoIs
<1> HIDE DEF mdat
<1>6. SizeIn(mdat) = Len(image) /\ CrcIn(mdat) = Crc(image) /\ VersionIn(mdat) = v
  BY <1>5, FieldsAre
<1>7. /\ InfoOf(mdat).version = v /\ InfoOf(mdat).size = Len(image)
      /\ InfoOf(mdat).crc = Crc(image)
  BY <1>6 DEF InfoOf
<1> QED
  BY <1>2, <1>3, <1>4, <1>7 DEF Describing

\* What is copied to the folder is written there whole, or not at all.
CopyMade(v, bin) ==
  /\ DOMAIN files' \subseteq DOMAIN files \cup {FileOf(v)}
  /\ DOMAIN files \subseteq DOMAIN files' \cup {FileOf(v)}
  /\ \A n \in DOMAIN files : n # FileOf(v) => files'[n] = files[n]
  /\ FileOf(v) \in DOMAIN files' => files'[FileOf(v)] = bin

LEMMA CopyIs ==
  ASSUME NEW v, NEW name \in DOMAIN files, files' \in Copied(files, name, v)
  PROVE  CopyMade(v, files[name])
<1> DEFINE rest == Without(files, FileOf(v))
<1>1. /\ DOMAIN rest = DOMAIN files \ {FileOf(v)}
      /\ \A n \in DOMAIN rest : rest[n] = files[n]
  BY DEF Without, Restrict
<1>2. files' = rest \/ files' = With(rest, FileOf(v), files[name])
  BY DEF Copied, Written
<1> HIDE DEF rest
<1>3. CASE files' = rest
  BY <1>1, <1>3 DEF CopyMade
<1>4. CASE files' = With(rest, FileOf(v), files[name])
  <2>1. /\ DOMAIN files' = DOMAIN rest \cup {FileOf(v)} /\ files'[FileOf(v)] = files[name]
        /\ \A n \in DOMAIN rest : n # FileOf(v) => files'[n] = rest[n]
    BY <1>4 DEF With
  <2> QED
    BY <1>1, <2>1 DEF CopyMade
<1> QED
  BY <1>2, <1>3, <1>4

LEMMA CopyGood ==
  ASSUME CatalogueInv, NEW v \in AppVersions, NEW bin \in Images \cup OtherFiles,
         CopyMade(v, bin)
  PROVE  /\ FilesGood(files', built)
         /\ \A w \in AppVersions : w # v =>
              /\ FileOf(w) \in DOMAIN files' <=> FileOf(w) \in DOMAIN files
              /\ FileOf(w) \in DOMAIN files => files'[FileOf(w)] = files[FileOf(w)]
<1>1. FileOf(v) # "meta" /\ \A w \in AppVersions : w # v => FileOf(w) # FileOf(v)
  BY FilesApart
<1>2. "meta" \in DOMAIN files' => "meta" \in DOMAIN files /\ files'["meta"] = files["meta"]
  BY <1>1 DEF CopyMade
<1>3. ASSUME NEW n \in DOMAIN files' \ {"meta"}
      PROVE  files'[n] \in Images \cup OtherFiles
  BY <1>3 DEF CopyMade, FilesGood, CatalogueInv
<1>4. FilesGood(files', built)
  BY <1>2, <1>3 DEF FilesGood, CatalogueInv
<1> QED
  BY <1>1, <1>4 DEF CopyMade

LEMMA AddFailsGood ==
  ASSUME CatalogueInv, NEW v \in AppVersions, NEW bin \in Images \cup OtherFiles,
         CopyMade(v, bin), AddFails(v), app_hex' = app_hex, built' = built
  PROVE  CatalogueInv'
<1>1. /\ FilesGood(files', built)
      /\ \A w \in AppVersions : w # v =>
           /\ FileOf(w) \in DOMAIN files' <=> FileOf(w) \in DOMAIN files
           /\ FileOf(w) \in DOMAIN files => files'[FileOf(w)] = files[FileOf(w)]
  BY CopyGood
<1> DEFINE conf == confs[source]
<1>2. \A w \in DOMAIN conf.apps : w \in AppVersions /\ conf.apps[w].version = w
  BY DEF CatalogueInv, ConfGood, Describing
<1>3. OnDisk(ota_apps, conf, files, spoiled)
  BY DEF CatalogueInv
<1> HIDE DEF conf
<1>4. \A w \in DOMAIN conf.apps : w # v /\ Good(conf.apps[w], files') => Good(conf.apps[w], files)
  BY <1>1, <1>2 DEF Good
<1>5. OnDisk(ota_apps, conf, files', spoiled \cup {v})
  <2>1. ASSUME NEW w \in DOMAIN ota_apps \ (spoiled \cup {v})
        PROVE  /\ w \in DOMAIN conf.apps /\ conf.apps[w] = ota_apps[w].info
               /\ FileOf(w) \in DOMAIN files'
               /\ ota_apps[w] = [info |-> conf.apps[w], bin |-> files'[FileOf(w)]]
    BY <1>1, <1>2, <1>3 DEF OnDisk
  <2>2. \A w \in DOMAIN conf.apps : Good(conf.apps[w], files') =>
          w \in DOMAIN ota_apps \cup (spoiled \cup {v})
    BY <1>3, <1>4 DEF OnDisk
  <2> QED
    BY <2>1, <2>2 DEF OnDisk
<1>6. Gone(removed, undeleted, files', ota_apps)
  BY <1>1 DEF Gone, CatalogueInv, AddFails
<1> QED
  BY <1>1, <1>5, <1>6 DEF CatalogueInv, AddFails, conf

LEMMA AddSavesGood ==
  ASSUME CatalogueInv, NEW v \in AppVersions, NEW bin \in Images \cup OtherFiles, NEW info,
         CopyMade(v, bin), Describing(info, v, built), Checks(info, bin),
         AddSaves(v, info, bin), app_hex' = app_hex, built' = built
  PROVE  CatalogueInv'
<1>1. /\ FilesGood(files', built)
      /\ \A w \in AppVersions : w # v =>
           /\ FileOf(w) \in DOMAIN files' <=> FileOf(w) \in DOMAIN files
           /\ FileOf(w) \in DOMAIN files => files'[FileOf(w)] = files[FileOf(w)]
      /\ files'[FileOf(v)] = bin /\ FileOf(v) \in DOMAIN files'
  BY CopyGood DEF AddSaves, CopyMade
<1> DEFINE new == [info |-> info, bin |-> bin]
<1>2. new.info = info /\ new.bin = bin /\ new = [info |-> new.info, bin |-> new.bin]
  OBVIOUS
<1>3. ota_apps' = With(ota_apps, v, new)
  BY DEF AddSaves
<1> HIDE DEF new
<1>4. /\ DOMAIN ota_apps' = DOMAIN ota_apps \cup {v} /\ ota_apps'[v] = new
      /\ \A w \in DOMAIN ota_apps : w # v => ota_apps'[w] = ota_apps[w]
  BY <1>3 DEF With
<1>5. /\ ota_latest_version' \in Nat /\ v <= ota_latest_version'
      /\ \A w \in DOMAIN ota_apps : w <= ota_latest_version'
  <2>1. v \in Nat /\ ota_latest_version \in Nat
    BY VersionTypes DEF CatalogueInv, AppsGood
  <2>2. \A w \in DOMAIN ota_apps : w \in Nat /\ w <= ota_latest_version
    BY VersionTypes DEF CatalogueInv, AppsGood
  <2>3. ota_latest_version' = Latest(v)
    BY DEF AddSaves
  <2>4. ota_latest_version' \in Nat /\ v <= ota_latest_version' /\ ota_latest_version <= ota_latest_version'
    BY <2>1, <2>3 DEF Latest, NoVersion
  <2> QED
    BY <2>1, <2>2, <2>4
<1>6. AppsGood(ota_apps', ota_latest_version', built)
  <2>1. ASSUME NEW w \in DOMAIN ota_apps'
        PROVE  /\ Describing(ota_apps'[w].info, w, built)
               /\ ota_apps'[w].bin \in Images \cup OtherFiles
               /\ Checks(ota_apps'[w].info, ota_apps'[w].bin)
    BY <1>2, <1>4 DEF AppsGood, CatalogueInv
  <2> QED
    BY <1>4, <1>5, <2>1 DEF AppsGood, CatalogueInv
<1>7. ItemsGood(ota_apps', lstApps')
  <2>1. PICK T : lstApps \in Seq(T)
    BY DEF CatalogueInv, ItemsGood
  <2> DEFINE more == Append(lstApps, v)
             n    == Len(lstApps)
  <2>2. lstApps \in Seq(T \cup {v}) /\ n \in Nat
    BY <2>1
  <2>3. /\ more \in Seq(T \cup {v}) /\ DOMAIN lstApps = 1 .. n /\ DOMAIN more = 1 .. n + 1
        /\ more[n + 1] = v /\ \A i \in 1 .. n : more[i] = lstApps[i]
    BY <2>2, AppendProperties
  <2> HIDE DEF more, n
  <2>4. n + 1 \in DOMAIN more /\ DOMAIN lstApps \subseteq DOMAIN more
    BY <2>2, <2>3
  <2>5. Range(lstApps) \cup {v} \subseteq Range(more)
    <3>1. v \in Range(more)
      BY <2>3, <2>4 DEF Range
    <3>2. \A i \in DOMAIN lstApps : lstApps[i] \in Range(more)
      BY <2>3, <2>4 DEF Range
    <3> QED
      BY <3>1, <3>2 DEF Range
  <2>6. lstApps' = more
    BY DEF AddSaves, more
  <2> QED
    BY <1>4, <2>3, <2>5, <2>6 DEF ItemsGood, CatalogueInv
<1>8. confs' = With(confs, ota_conf_path, Saved(ota_apps', ota_latest_version')) /\ source' = ota_conf_path
  BY DEF AddSaves, saveOtaConfig
<1>9. /\ Default \in DOMAIN confs' /\ source' \in DOMAIN confs'
      /\ \A p \in DOMAIN confs' : ConfGood(confs'[p], built)
      /\ confs'[source'] = Saved(ota_apps', ota_latest_version')
  BY <1>6, <1>8, SavedConfs DEF CatalogueInv
<1>10. ASSUME NEW w \in DOMAIN ota_apps' \ (spoiled \ {v})
       PROVE  /\ FileOf(w) \in DOMAIN files'
              /\ ota_apps'[w] = [info |-> ota_apps'[w].info, bin |-> files'[FileOf(w)]]
  <2>1. CASE w = v
    BY <1>1, <1>2, <1>4, <2>1
  <2>2. CASE w # v
    <3>1. w \in DOMAIN ota_apps \ spoiled /\ ota_apps'[w] = ota_apps[w] /\ w \in AppVersions
      BY <1>4, <2>2 DEF CatalogueInv, AppsGood
    <3>2. /\ FileOf(w) \in DOMAIN files
          /\ ota_apps[w] = [info |-> ota_apps[w].info, bin |-> files[FileOf(w)]]
      BY <3>1 DEF CatalogueInv, OnDisk
    <3> QED
      BY <1>1, <2>2, <3>1, <3>2
  <2> QED
    BY <2>1, <2>2
<1>11. OnDisk(ota_apps', confs'[source'], files', spoiled \ {v})
  BY <1>6, <1>9, <1>10, SaveOnDisk
<1>12. Gone(removed \ {v}, undeleted \ {v}, files', ota_apps')
  BY <1>1, <1>4 DEF Gone, CatalogueInv
<1>13. removed' = removed \ {v} /\ undeleted' = undeleted \ {v} /\ spoiled' = spoiled \ {v}
  BY DEF AddSaves
<1> QED
  BY <1>1, <1>6, <1>7, <1>9, <1>11, <1>12, <1>13 DEF CatalogueInv

LEMMA AddGood ==
  ASSUME CatalogueInv, NEW name \in DOMAIN files, slotAddOtaApp(name)
  PROVE  CatalogueInv'
<1> DEFINE info == InfoOf(files["meta"])
           v    == info.version
           bin  == files[name]
<1>1. /\ "meta" \in DOMAIN files /\ Len(files["meta"]) = InfoLen /\ Checks(info, bin)
      /\ \/ AddRefused(v)
         \/ /\ files' \in Copied(files, name, v)
            /\ AddFails(v) \/ AddSaves(v, info, bin) \/ AddEnds(v)
            /\ built' = built
      /\ app_hex' = app_hex
  BY DEF slotAddOtaApp, createOtaAppByMetaAndBin, AddFails, AddSaves, AddEnds
<1>2. v \in AppVersions /\ Describing(info, v, built) /\ files["meta"] \in OtherFiles
  BY <1>1, MetaOfBuild DEF CatalogueInv
<1> HIDE DEF info
<1>3. bin \in Images \cup OtherFiles
  BY <1>2 DEF FilesGood, CatalogueInv
<1>4. files' \in Copied(files, name, v) => CopyMade(v, bin)
  BY CopyIs
<1> HIDE DEF v, bin
<1>5. CASE CopyMade(v, bin) /\ built' = built /\ AddFails(v)
  BY <1>1, <1>2, <1>3, <1>5, AddFailsGood
<1>6. CASE CopyMade(v, bin) /\ built' = built /\ AddSaves(v, info, bin)
  BY <1>1, <1>2, <1>3, <1>6, AddSavesGood
<1>7. CASE CopyMade(v, bin) /\ built' = built /\ AddEnds(v)
  <2>1. /\ FilesGood(files', built)
        /\ \A w \in AppVersions : w # v => (FileOf(w) \in DOMAIN files' <=> FileOf(w) \in DOMAIN files)
    BY <1>2, <1>3, <1>7, CopyGood
  <2>2. /\ loadOtaConfig(Default, files', confs) /\ confs' = confs
        /\ removed' = removed \ {v} /\ undeleted' = undeleted \ {v}
    BY <1>7 DEF AddEnds, Started
  <2>3. removed' \subseteq AppVersions /\ \A w \in removed' \ undeleted' : FileOf(w) \notin DOMAIN files'
    BY <2>1, <2>2 DEF CatalogueInv, Gone
  <2>4. Default \in DOMAIN confs
    BY DEF CatalogueInv
  <2> QED
    BY <1>1, <1>7, <2>1, <2>2, <2>3, <2>4, LoadGood
<1>8. CASE AddRefused(v)
  BY <1>1, <1>8 DEF CatalogueInv, AddRefused, catalogueVars
<1> QED
  BY <1>1, <1>4, <1>5, <1>6, <1>7, <1>8

-----------------------------------------------------------------------------
\* One item taken away: every other one is still in the list.
LEMMA OthersStay ==
  ASSUME NEW T, NEW items \in Seq(T), NEW i \in DOMAIN items
  PROVE  /\ RemoveAt(items, i) \in Seq(T)
         /\ \A j \in DOMAIN items : j # i => items[j] \in Range(RemoveAt(items, i))
<1> DEFINE n == Len(items)
           a == SubSeq(items, 1, i - 1)
           b == SubSeq(items, i + 1, n)
<1>1. n \in Nat /\ DOMAIN items = 1 .. n /\ \A j \in 1 .. n : items[j] \in T
  BY LenProperties, ElementOfSeq
<1>2. RemoveAt(items, i) = a \o b
  BY DEF RemoveAt
<1> HIDE DEF n
<1>3. i \in 1 .. n
  BY <1>1
<1>4. /\ a \in Seq(T) /\ Len(a) = IF 1 <= i - 1 THEN (i - 1) - 1 + 1 ELSE 0
      /\ \A k \in 1 .. (i - 1) - 1 + 1 : a[k] = items[1 + k - 1]
  <2>1. 1 \in Int /\ i - 1 \in Int /\ \A k \in 1 .. i - 1 : items[k] \in T
    BY <1>1, <1>3
  <2> QED
    BY <2>1, SubSeqProperties
<1>5. /\ b \in Seq(T) /\ Len(b) = IF i + 1 <= n THEN n - (i + 1) + 1 ELSE 0
      /\ \A k \in 1 .. n - (i + 1) + 1 : b[k] = items[(i + 1) + k - 1]
  <2>1. i + 1 \in Int /\ n \in Int /\ \A k \in i + 1 .. n : items[k] \in T
    BY <1>1, <1>3
  <2> QED
    BY <2>1, SubSeqProperties
<1> DEFINE la == Len(a)
           lb == Len(b)
<1> HIDE DEF a, b
<1>6. /\ a \o b \in Seq(T) /\ Len(a \o b) = la + lb
      /\ \A k \in 1 .. la + lb : (a \o b)[k] = IF k <= la THEN a[k] ELSE b[k - la]
  BY <1>4, <1>5, ConcatProperties
<1>7. DOMAIN (a \o b) = 1 .. Len(a \o b)
  BY <1>6
<1> DEFINE r == a \o b
<1> HIDE DEF la, lb, r
<1>8. /\ la = i - 1 /\ lb = n - i
      /\ \A k \in 1 .. i - 1 : a[k] = items[k]
      /\ \A k \in 1 .. n - i : b[k] = items[i + k]
  <2>1. la = (IF 1 <= i - 1 THEN (i - 1) - 1 + 1 ELSE 0) /\ lb = (IF i + 1 <= n THEN n - (i + 1) + 1 ELSE 0)
    BY <1>4, <1>5 DEF la, lb
  <2>2. la = i - 1 /\ lb = n - i
    BY <1>1, <1>3, <2>1
  <2>3. (i - 1) - 1 + 1 = i - 1 /\ n - (i + 1) + 1 = n - i
    BY <1>1, <1>3
  <2>4. ASSUME NEW k \in 1 .. i - 1
        PROVE  a[k] = items[k]
    <3>1. k \in 1 .. (i - 1) - 1 + 1 /\ 1 + k - 1 = k
      BY <1>3, <2>3
    <3> QED
      BY <1>4, <3>1
  <2>5. ASSUME NEW k \in 1 .. n - i
        PROVE  b[k] = items[i + k]
    <3>1. k \in 1 .. n - (i + 1) + 1 /\ (i + 1) + k - 1 = i + k
      BY <1>1, <1>3, <2>3
    <3> QED
      BY <1>5, <3>1
  <2> QED
    BY <2>2, <2>4, <2>5
<1>9. DOMAIN r = 1 .. la + lb /\ \A k \in 1 .. la + lb : r[k] = IF k <= la THEN a[k] ELSE b[k - la]
  BY <1>6, <1>7 DEF r
<1>10. ASSUME NEW j \in 1 .. n, j # i
       PROVE  \E k \in DOMAIN r : r[k] = items[j]
  <2>1. CASE j < i
    <3>1. j \in 1 .. la + lb /\ j <= la /\ j \in 1 .. i - 1
      BY <1>1, <1>3, <1>8, <2>1
    <3>2. r[j] = items[j]
      BY <1>8, <1>9, <3>1
    <3> QED
      BY <1>9, <3>1, <3>2
  <2>2. CASE i < j
    <3> DEFINE k == j - 1
    <3>1. k \in 1 .. la + lb /\ ~(k <= la) /\ k - la \in 1 .. n - i /\ i + (k - la) = j
      BY <1>1, <1>3, <1>8, <2>2
    <3> HIDE DEF k
    <3>2. r[k] = items[j]
      BY <1>8, <1>9, <3>1
    <3> QED
      BY <1>9, <3>1, <3>2
  <2>3. j \in Int /\ i \in Int
    BY <1>1, <1>3
  <2> QED
    BY <1>10, <2>1, <2>2, <2>3
<1>11. \A j \in 1 .. n : j # i => items[j] \in Range(r)
  BY <1>10 DEF Range
<1> QED
  BY <1>1, <1>2, <1>6, <1>11 DEF r

LEMMA RemoveGood ==
  ASSUME CatalogueInv, NEW i \in DOMAIN lstApps, slotRemoveOtaApp(i)
  PROVE  CatalogueInv'
<1> DEFINE v == lstApps[i]
           saves ==
             /\ lstApps' = RemoveAt(lstApps, i)
             /\ ota_latest_version' = NextLatest(v)
             /\ ota_apps' = Restrict(ota_apps, DOMAIN ota_apps \ {v})
             /\ saveOtaConfig(ota_conf_path, ota_apps', ota_latest_version')
             /\ UNCHANGED spoiled
<1>1. /\ RemoveFile(v)
      /\ saves \/ Started(files')
      /\ app_hex' = app_hex /\ built' = built
  BY DEF slotRemoveOtaApp
<1> HIDE DEF v, saves
<1>2. /\ DOMAIN files' \subseteq DOMAIN files
      /\ \A n \in DOMAIN files' : files'[n] = files[n]
      /\ \A w \in AppVersions : w # v /\ FileOf(w) \in DOMAIN files => FileOf(w) \in DOMAIN files'
      /\ "meta" \in DOMAIN files' => "meta" \in DOMAIN files
      /\ removed' = removed \/ (v \in AppVersions /\ removed' = removed \cup {v})
      /\ \A w \in removed' \ undeleted' : FileOf(w) \notin DOMAIN files' /\ (w = v \/ w \in removed \ undeleted)
  <2>1. DOMAIN ota_apps \subseteq AppVersions
    BY DEF CatalogueInv, AppsGood
  <2>2. \A w \in removed \ undeleted : FileOf(w) \notin DOMAIN files
    BY DEF CatalogueInv, Gone
  <2>3. CASE v \notin DOMAIN ota_apps
    BY <1>1, <2>2, <2>3 DEF RemoveFile
  <2>4. CASE v \in DOMAIN ota_apps /\ files' = Without(files, FileOf(v)) /\ undeleted' = undeleted \ {v}
    <3>1. v \in AppVersions /\ removed' = removed \cup {v}
      BY <1>1, <2>1, <2>4 DEF RemoveFile
    <3>2. /\ DOMAIN files' = DOMAIN files \ {FileOf(v)}
          /\ \A n \in DOMAIN files' : files'[n] = files[n]
      BY <2>4 DEF Without, Restrict
    <3> QED
      BY <2>2, <2>4, <3>1, <3>2, FilesApart
  <2>5. CASE v \in DOMAIN ota_apps /\ files' = files /\ undeleted' = undeleted \cup {v}
    <3>1. v \in AppVersions /\ removed' = removed \cup {v}
      BY <1>1, <2>1, <2>5 DEF RemoveFile
    <3> QED
      BY <2>2, <2>5, <3>1
  <2> QED
    BY <1>1, <2>3, <2>4, <2>5 DEF RemoveFile
<1>3. FilesGood(files', built)
  <2>1. FilesGood(files, built)
    BY DEF CatalogueInv
  <2>2. "meta" \in DOMAIN files' => files'["meta"] = files["meta"]
    BY <1>2
  <2> QED
    BY <1>2, <2>1, <2>2 DEF FilesGood
<1>4. removed' \subseteq AppVersions /\ \A w \in removed' \ undeleted' : FileOf(w) \notin DOMAIN files'
  BY <1>2 DEF CatalogueInv, Gone
<1>5. CASE Started(files')
  <2>1. loadOtaConfig(Default, files', confs) /\ confs' = confs /\ Default \in DOMAIN confs
    BY <1>5 DEF Started, CatalogueInv
  <2> QED
    BY <1>1, <1>3, <1>4, <2>1, LoadGood
<1>6. CASE saves
  <2>1. /\ lstApps' = RemoveAt(lstApps, i) /\ ota_latest_version' = NextLatest(v)
        /\ ota_apps' = Restrict(ota_apps, DOMAIN ota_apps \ {v})
        /\ confs' = With(confs, ota_conf_path, Saved(ota_apps', ota_latest_version'))
        /\ source' = ota_conf_path /\ spoiled' = spoiled
    BY <1>6 DEF saves, saveOtaConfig
  <2>2. /\ DOMAIN ota_apps' = DOMAIN ota_apps \ {v}
        /\ \A w \in DOMAIN ota_apps' : ota_apps'[w] = ota_apps[w]
    BY <2>1 DEF Restrict
  <2>3. ota_latest_version' \in Nat /\ \A w \in DOMAIN ota_apps' : w <= ota_latest_version'
    <3>1. ota_latest_version \in Nat /\ \A w \in DOMAIN ota_apps : w <= ota_latest_version
      BY DEF CatalogueInv, AppsGood
    <3> DEFINE S == {NoVersion} \cup DOMAIN ota_apps
    <3>2. S \in SUBSET Int /\ IsFiniteSet(S) /\ NoVersion \in S /\ \A x \in S : x \in Nat
      <4>1. DOMAIN ota_apps \in SUBSET AppVersions
        BY DEF CatalogueInv, AppsGood
      <4>2. IsFiniteSet(DOMAIN ota_apps) /\ \A x \in DOMAIN ota_apps : x \in Nat
        BY <4>1, VersionTypes
      <4>3. IsFiniteSet(DOMAIN ota_apps \cup {NoVersion})
        BY <4>2, FS_AddElement
      <4>4. S = DOMAIN ota_apps \cup {NoVersion}
        OBVIOUS
      <4> QED
        BY <4>2, <4>3, <4>4 DEF NoVersion
    <3> HIDE DEF S
    <3>3. Max(S) \in Nat /\ \A x \in S : x <= Max(S)
      BY <3>2, MaxOfFinite
    <3>4. DOMAIN ota_apps \subseteq S /\ ota_latest_version' \in {Max(S), ota_latest_version}
      BY <2>1 DEF NextLatest, S
    <3> QED
      BY <2>2, <3>1, <3>3, <3>4
  <2>4. AppsGood(ota_apps', ota_latest_version', built)
    BY <2>2, <2>3 DEF AppsGood, CatalogueInv
  <2>5. ItemsGood(ota_apps', lstApps')
    <3>1. PICK T : lstApps \in Seq(T)
      BY DEF CatalogueInv, ItemsGood
    <3>2. /\ lstApps' \in Seq(T)
          /\ \A j \in DOMAIN lstApps : j # i => lstApps[j] \in Range(lstApps')
      BY <2>1, <3>1, OthersStay
    <3>3. ASSUME NEW w \in DOMAIN ota_apps'
          PROVE  w \in Range(lstApps')
      <4>1. PICK j \in DOMAIN lstApps : lstApps[j] = w
        BY <2>2 DEF CatalogueInv, ItemsGood, Range
      <4>2. j # i
        BY <2>2, <4>1 DEF v
      <4> QED
        BY <3>2, <4>1, <4>2
    <3> QED
      BY <3>2, <3>3 DEF ItemsGood
  <2>6. /\ Default \in DOMAIN confs' /\ source' \in DOMAIN confs'
        /\ \A p \in DOMAIN confs' : ConfGood(confs'[p], built)
        /\ confs'[source'] = Saved(ota_apps', ota_latest_version')
    BY <2>1, <2>4, SavedConfs DEF CatalogueInv
  <2>7. ASSUME NEW w \in DOMAIN ota_apps' \ spoiled
        PROVE  /\ FileOf(w) \in DOMAIN files'
               /\ ota_apps'[w] = [info |-> ota_apps'[w].info, bin |-> files'[FileOf(w)]]
    <3>1. w \in DOMAIN ota_apps \ spoiled /\ w # v /\ ota_apps'[w] = ota_apps[w] /\ w \in AppVersions
      BY <2>2 DEF CatalogueInv, AppsGood
    <3>2. /\ FileOf(w) \in DOMAIN files
          /\ ota_apps[w] = [info |-> ota_apps[w].info, bin |-> files[FileOf(w)]]
      BY <3>1 DEF CatalogueInv, OnDisk
    <3> QED
      BY <1>2, <3>1, <3>2
  <2>8. OnDisk(ota_apps', confs'[source'], files', spoiled)
    BY <2>4, <2>6, <2>7, SaveOnDisk
  <2>9. Gone(removed', undeleted', files', ota_apps')
    <3>1. \A w \in removed' \ undeleted' : w \notin DOMAIN ota_apps'
      BY <1>2, <2>2 DEF CatalogueInv, Gone
    <3> QED
      BY <1>4, <3>1 DEF Gone
  <2> QED
    BY <1>1, <1>3, <2>1, <2>4, <2>5, <2>6, <2>8, <2>9 DEF CatalogueInv
<1> QED
  BY <1>1, <1>5, <1>6

-----------------------------------------------------------------------------
LEMMA CatalogueHolds == CatalogueSpec => []CatalogueInv
<1>1. ImageInit /\ CatalogueInit => CatalogueInv
  BY StartGood
<1>2. ASSUME CatalogueInv,
             [(Link /\ UNCHANGED catalogueVars) \/ Build \/ CatalogueNext]_<<imageVars, catalogueVars>>
      PROVE  CatalogueInv'
  <2>1. CASE Link /\ UNCHANGED catalogueVars
    <3>1. app_hex' \in AppHexes /\ files' = files
      BY <2>1 DEF Link
    <3> QED
      BY <1>2, <2>1, <3>1 DEF CatalogueInv, catalogueVars
  <2>2. CASE Build
    BY <1>2, <2>2, BuildGood
  <2>3. CASE Restart
    BY <1>2, <2>3, RestartGood
  <2>4. CASE slotLoadOtaConfig
    BY <1>2, <2>4, SlotLoadGood
  <2>5. CASE slotSaveOtaConfig
    BY <1>2, <2>5, SlotSaveGood
  <2>6. ASSUME NEW name \in DOMAIN files, slotAddOtaApp(name)
        PROVE  CatalogueInv'
    BY <1>2, <2>6, AddGood
  <2>7. ASSUME NEW i \in DOMAIN lstApps, slotRemoveOtaApp(i)
        PROVE  CatalogueInv'
    BY <1>2, <2>7, RemoveGood
  <2>8. CASE UNCHANGED <<imageVars, catalogueVars>>
    BY <1>2, <2>8 DEF CatalogueInv, imageVars, catalogueVars
  <2> QED
    BY <1>2, <2>1, <2>2, <2>3, <2>4, <2>5, <2>6, <2>7, <2>8 DEF CatalogueNext
<1> QED
  BY <1>1, <1>2, PTL DEF CatalogueSpec

\* What the server offers is an image of one build with the version of that
\* build (the entries Config loads and slotAddOtaApp makes say size and CRC of
\* one build, and createOtaAppByMetaAndBin compares them with the image).
THEOREM OffersAreBuilt == CatalogueSpec => []OfferedIsBuilt
<1>1. ASSUME CatalogueInv PROVE OfferedIsBuilt
  <2>1. ASSUME NEW v \in DOMAIN ota_apps
        PROVE  <<v, ota_apps[v].bin>> \in built /\ ota_apps[v].info.version = v
    BY <1>1, DescribedIsBuilt DEF CatalogueInv, AppsGood
  <2> QED
    BY <2>1 DEF OfferedIsBuilt
<1> QED
  BY <1>1, CatalogueHolds, PTL

\* Every image that is offered has an item in the window's list, also when it
\* was put in twice and one item taken away, and none is newer than the version
\* announced, which every edit and every load keeps up.
THEOREM WindowShowsOffers == CatalogueSpec => []OffersAreShown
<1>1. CatalogueInv => OffersAreShown
  BY DEF CatalogueInv, AppsGood, ItemsGood, OffersAreShown
<1> QED
  BY <1>1, CatalogueHolds, PTL

\* The program may end anywhere in an edit: the configuration that was loaded
\* or saved last gives the catalogue again, but for images whose file could not
\* be replaced.
THEOREM DiskKeepsCatalogue == CatalogueSpec => []CatalogueOnDisk
<1>1. ASSUME CatalogueInv PROVE CatalogueOnDisk
  <2> DEFINE conf == confs[source]
             kept == DOMAIN ota_apps \ spoiled
             disk == Loaded(conf, files)
  <2>1. OnDisk(ota_apps, conf, files, spoiled) /\ ConfGood(conf, built)
    BY <1>1 DEF CatalogueInv
  <2>2. /\ DOMAIN disk = {w \in DOMAIN conf.apps : Good(conf.apps[w], files)}
        /\ \A v \in DOMAIN disk : disk[v] = [info |-> conf.apps[v], bin |-> files[FileOf(v)]]
    BY DEF Loaded
  <2> HIDE DEF disk
  <2>3. ASSUME NEW v \in kept
        PROVE  v \in DOMAIN disk /\ disk[v] = ota_apps[v]
    <3>1. /\ v \in DOMAIN conf.apps /\ conf.apps[v] = ota_apps[v].info
          /\ FileOf(v) \in DOMAIN files
          /\ ota_apps[v] = [info |-> conf.apps[v], bin |-> files[FileOf(v)]]
      BY <2>1 DEF OnDisk
    <3>2. ota_apps[v].bin = files[FileOf(v)] /\ Checks(ota_apps[v].info, ota_apps[v].bin)
      <4> DEFINE i == conf.apps[v]
                 b == files[FileOf(v)]
      <4>1. ota_apps[v] = [info |-> i, bin |-> b]
        BY <3>1
      <4> HIDE DEF i, b
      <4>2. ota_apps[v].bin = b
        BY <4>1
      <4> QED
        BY <1>1, <4>2 DEF CatalogueInv, AppsGood, b
    <3>3. conf.apps[v].version = v
      BY <2>1, <3>1 DEF ConfGood, Describing
    <3>4. Good(conf.apps[v], files)
      BY <3>1, <3>2, <3>3 DEF Good
    <3> QED
      BY <2>2, <3>1, <3>4
  <2>4. \A v \in DOMAIN disk : v \in DOMAIN ota_apps \cup spoiled
    BY <2>1, <2>2 DEF OnDisk
  <2>5. DOMAIN disk \ spoiled = kept
    BY <2>3, <2>4
  <2> QED
    BY <2>3, <2>5 DEF CatalogueOnDisk, disk
<1> QED
  BY <1>1, CatalogueHolds, PTL

\* What slotRemoveOtaApp takes out with its file loses that before anything
\* else, so no configuration brings it back, whenever the program ends, until an
\* image of that version is put in.  It does not look whether the file could be
\* removed: what was taken out without it may come back.
THEOREM WithdrawnStaysAway == CatalogueSpec => []RemovedStaysAway
<1>1. CatalogueInv => RemovedStaysAway
  BY DEF CatalogueInv, Gone, RemovedStaysAway
<1> QED
  BY <1>1, CatalogueHolds, PTL

-----------------------------------------------------------------------------
(***************************************************************************)
(* The ROM image.  What Merge lays out reaches behind the metadata, which  *)
(* therefore have their place in it, and where the boot loader is no       *)
(* application reaches.                                                    *)
(***************************************************************************)
LEMMA SequenceOf ==
  ASSUME NEW n \in Nat, NEW S, NEW f \in [1 .. n -> S]
  PROVE  f \in Seq(S) /\ Len(f) = n
<1>1. f \in Seq(S)
  OBVIOUS
<1>2. Len(f) \in Nat /\ 1 .. Len(f) = 1 .. n
  BY <1>1, LenProperties
<1> DEFINE l == Len(f)
<1> HIDE DEF l
<1>3. l \in Nat /\ 1 .. l = 1 .. n
  BY <1>2 DEF l
<1>4. l = n
  <2>1. l # 0 => l \in 1 .. n
    BY <1>3
  <2>2. n # 0 => n \in 1 .. l
    BY <1>3
  <2> QED
    BY <1>3, <2>1, <2>2
<1> QED
  BY <1>1, <1>4 DEF l

\* Two pieces of one length with the same elements are the same.
LEMMA SamePiece ==
  ASSUME NEW s, NEW t, NEW m \in Int, NEW n \in Int, \A i \in m .. n : s[i] = t[i]
  PROVE  SubSeq(s, m, n) = SubSeq(t, m, n)
<1> DEFINE S == {s[i] : i \in m .. n}
           a == SubSeq(s, m, n)
           b == SubSeq(t, m, n)
           k == IF m <= n THEN n - m + 1 ELSE 0
<1>1. \A i \in m .. n : s[i] \in S /\ t[i] \in S
  OBVIOUS
<1> HIDE DEF S
<1>2. /\ a \in Seq(S) /\ Len(a) = k
      /\ \A i \in 1 .. n - m + 1 : a[i] = s[m + i - 1]
  BY <1>1, SubSeqProperties
<1>3. /\ b \in Seq(S) /\ Len(b) = k
      /\ \A i \in 1 .. n - m + 1 : b[i] = t[m + i - 1]
  BY <1>1, SubSeqProperties
<1> HIDE DEF a, b
<1>4. \A i \in 1 .. n - m + 1 : a[i] = b[i]
  <2>1. \A i \in 1 .. n - m + 1 : m + i - 1 \in m .. n
    OBVIOUS
  <2> QED
    BY <1>2, <1>3, <2>1
<1>5. 1 .. k \subseteq 1 .. n - m + 1
  OBVIOUS
<1> HIDE DEF k
<1>6. Len(a) = Len(b) /\ \A i \in 1 .. Len(a) : a[i] = b[i]
  BY <1>2, <1>3, <1>4, <1>5
<1> QED
  BY <1>2, <1>3, <1>6, SeqEqual DEF a, b

LEMMA SnippetTypes ==
  ASSUME NEW s \in Snippet
  PROVE  s.addr \in Nat /\ s.dat \in Seq(Byte) /\ Len(s.dat) \in Nat
<1>1. s.addr \in Nat /\ s.dat \in Seq(Byte)
  BY DEF Snippet
<1> QED
  BY <1>1, LenProperties

\* No snippet ends behind EndOf.
LEMMA EndsAre ==
  ASSUME NEW snippets \in Seq(Snippet)
  PROVE  /\ EndOf(snippets) \in Nat
         /\ \A k \in DOMAIN snippets :
              snippets[k].addr + Len(snippets[k].dat) <= EndOf(snippets)
<1> DEFINE end(s) == s.addr + Len(s.dat)
           I      == 1 .. Len(snippets)
           Ends   == {end(s) : s \in Range(snippets)}
           f      == [i \in I |-> end(snippets[i])]
<1>1. Len(snippets) \in Int /\ DOMAIN snippets = I /\ \A i \in I : snippets[i] \in Snippet
  BY LenProperties, ElementOfSeq
<1>2. \A i \in I : end(snippets[i]) \in Nat
  BY <1>1, SnippetTypes
<1>3. IsFiniteSet(I)
  BY <1>1, FS_Interval
<1> HIDE DEF I, end
<1>4. /\ \A i \in I : end(snippets[i]) \in Ends
      /\ \A e \in Ends : \E i \in I : e = end(snippets[i])
  BY <1>1 DEF Range
<1> HIDE DEF Ends
<1>5. f \in Surjection(I, Ends)
  BY <1>4 DEF Surjection
<1>6. IsFiniteSet(Ends)
  BY <1>3, <1>5, FS_Surjection
<1>7. IsFiniteSet(Ends \cup {0})
  BY <1>6, FS_AddElement
<1> DEFINE S == {0} \cup Ends
<1>8. IsFiniteSet(S) /\ S \in SUBSET Int /\ 0 \in S /\ \A e \in S : e \in Nat
  <2>1. S = Ends \cup {0}
    OBVIOUS
  <2>2. IsFiniteSet(S)
    BY <1>7, <2>1
  <2>3. \A e \in Ends : e \in Nat
    BY <1>2, <1>4
  <2>4. 0 \in S /\ \A e \in S : e \in Nat
    BY <2>3
  <2> HIDE DEF S
  <2> QED
    BY <2>2, <2>4
<1>9. \A e \in Ends : e \in S
  OBVIOUS
<1> HIDE DEF S
<1>10. Max(S) \in S /\ \A e \in S : e <= Max(S)
  BY <1>8, MaxOfFinite
<1>11. EndOf(snippets) = Max(S)
  BY DEF EndOf, S, Ends, end
<1> QED
  BY <1>1, <1>4, <1>8, <1>9, <1>10, <1>11 DEF end

\* The snippets over a place.
Over(snippets, a) ==
  {k \in DOMAIN snippets : a - 1 - snippets[k].addr \in 0 .. Len(snippets[k].dat) - 1}

LEMMA LayoutIs ==
  ASSUME NEW snippets \in Seq(Snippet), NEW fill
  PROVE  LET image == Layout(snippets, fill)
         IN  /\ DOMAIN image = 1 .. EndOf(snippets)
             /\ \E S : image \in Seq(S)
             /\ Len(image) = EndOf(snippets)
             /\ \A a \in 1 .. EndOf(snippets) :
                  LET k == Max(Over(snippets, a))
                  IN  Over(snippets, a) # {} => image[a] = snippets[k].dat[a - snippets[k].addr]
<1> DEFINE image == Layout(snippets, fill)
           n     == EndOf(snippets)
           byte(a) == IF Over(snippets, a) = {} THEN fill
                      ELSE snippets[Max(Over(snippets, a))].dat[a - snippets[Max(Over(snippets, a))].addr]
<1>1. n \in Nat
  BY EndsAre
<1>2. image = [a \in 1 .. n |-> byte(a)]
  BY DEF Layout, Over
<1>3. \A a \in 1 .. n : Over(snippets, a) # {} =>
        byte(a) = snippets[Max(Over(snippets, a))].dat[a - snippets[Max(Over(snippets, a))].addr]
  OBVIOUS
<1> HIDE DEF image, n, byte
<1> DEFINE S == {byte(a) : a \in 1 .. n}
<1>4. image \in [1 .. n -> S] /\ DOMAIN image = 1 .. n /\ \A a \in 1 .. n : image[a] = byte(a)
  BY <1>2
<1> HIDE DEF S
<1>5. image \in Seq(S) /\ Len(image) = n
  BY <1>1, <1>4, SequenceOf
<1>6. \A a \in 1 .. n : Over(snippets, a) # {} =>
        image[a] = snippets[Max(Over(snippets, a))].dat[a - snippets[Max(Over(snippets, a))].addr]
  BY <1>3, <1>4
<1> QED
  BY <1>4, <1>5, <1>6 DEF image, n

-----------------------------------------------------------------------------
\* The snippets that Merge puts together: those of the boot loader and behind
\* them those of the application, the first one moved.
AllIn1(ldr, app) == ldr \o Moved(app)

LEMMA AllIn1Is ==
  ASSUME NEW ldr \in Seq(Snippet), NEW app \in Seq(Snippet), Len(app) >= 2, StartsWithJump(app)
  PROVE  LET all == AllIn1(ldr, app)
             n   == Len(ldr)
         IN  /\ all \in Seq(Snippet) /\ n \in Nat
             /\ DOMAIN all = 1 .. n + Len(app) /\ DOMAIN ldr = 1 .. n
             /\ \A k \in 1 .. n : all[k] = ldr[k]
             /\ all[n + 1].addr = LdrMeta /\ Len(all[n + 1].dat) = 3
             /\ \A k \in n + 2 .. n + Len(app) : all[k] = app[k - n]
<1> DEFINE n     == Len(ldr)
           m     == Len(app)
           moved == Moved(app)
           all   == ldr \o moved
           first == app[1]
           to    == [first EXCEPT !.addr = @ + LdrMeta]
<1>1. n \in Nat /\ m \in Nat /\ DOMAIN ldr = 1 .. n
  BY LenProperties
<1>2. m >= 2
  OBVIOUS
<1>3. 1 \in 1 .. Len(app)
  <2> HIDE DEF m
  <2>1. 1 \in 1 .. m
    BY <1>1, <1>2
  <2> QED
    BY <2>1 DEF m
<1>4. first \in Snippet /\ first.addr = 0 /\ Len(first.dat) = 3
  BY <1>3, ElementOfSeq DEF StartsWithJump
<1>5. LdrMeta \in Nat
  BY ToolsAssumption DEF LdrMeta
<1>6. to \in Snippet /\ to.addr = LdrMeta /\ to.dat = first.dat
  <2> DEFINE at == first.addr + LdrMeta
  <2>1. at \in Nat /\ at = LdrMeta /\ first.dat \in Seq(Byte)
    BY <1>4, <1>5 DEF Snippet
  <2>2. ASSUME NEW D, NEW s \in [addr : Nat, dat : D], NEW x \in Nat
        PROVE  LET t == [s EXCEPT !.addr = x]
               IN  t \in [addr : Nat, dat : D] /\ t.addr = x /\ t.dat = s.dat
    OBVIOUS
  <2>3. first \in [addr : Nat, dat : Seq(Byte)] /\ to = [first EXCEPT !.addr = at]
    BY <1>4 DEF Snippet
  <2> HIDE DEF at, to, first
  <2>4. to \in [addr : Nat, dat : Seq(Byte)] /\ to.addr = at /\ to.dat = first.dat
    BY <2>1, <2>2, <2>3
  <2> QED
    BY <2>1, <2>4 DEF Snippet
<1>7. moved = [app EXCEPT ![1] = to]
  BY DEF Moved
<1> HIDE DEF n, m, moved, to, first
<1>8. /\ moved \in Seq(Snippet) /\ Len(moved) = Len(app)
      /\ \A j \in 1 .. Len(app) : moved[j] = IF j = 1 THEN to ELSE app[j]
  BY <1>3, <1>6, <1>7, ExceptSeq
<1>9. /\ all \in Seq(Snippet) /\ Len(all) = Len(ldr) + Len(moved)
      /\ \A i \in 1 .. Len(ldr) + Len(moved) :
           all[i] = IF i <= Len(ldr) THEN ldr[i] ELSE moved[i - Len(ldr)]
  <2>1. moved \in Seq(Snippet)
    BY <1>8
  <2> QED
    BY <2>1, ConcatProperties
<1>10. DOMAIN all = 1 .. Len(all)
  BY <1>9, LenProperties
<1> HIDE DEF all
<1>11. /\ DOMAIN all = 1 .. n + m
       /\ \A i \in 1 .. n + m : all[i] = IF i <= n THEN ldr[i] ELSE moved[i - n]
       /\ \A j \in 1 .. m : moved[j] = IF j = 1 THEN to ELSE app[j]
  BY <1>8, <1>9, <1>10 DEF n, m
<1>12. \A k \in 1 .. n : all[k] = ldr[k]
  <2>1. \A k \in 1 .. n : k \in 1 .. n + m /\ k <= n
    BY <1>1
  <2> QED
    BY <1>11, <2>1
<1>13. all[n + 1] = to
  <2>1. n + 1 \in 1 .. n + m /\ ~(n + 1 <= n) /\ (n + 1) - n = 1 /\ 1 \in 1 .. m
    BY <1>1, <1>2 DEF m
  <2> QED
    BY <1>11, <2>1
<1>14. ASSUME NEW k \in n + 2 .. n + m
       PROVE  all[k] = app[k - n]
  <2>1. k \in 1 .. n + m /\ ~(k <= n) /\ k - n \in 1 .. m /\ k - n # 1
    BY <1>1
  <2> QED
    BY <1>11, <2>1
<1>15. all[n + 1].addr = LdrMeta /\ Len(all[n + 1].dat) = 3
  BY <1>4, <1>6, <1>13
<1>16. AllIn1(ldr, app) = all
  BY DEF AllIn1, all, moved
<1> QED
  BY <1>1, <1>9, <1>11, <1>12, <1>14, <1>15, <1>16 DEF n, m

\* The image reaches behind the jump at the start of the application's area.
LEMMA MergeReaches ==
  ASSUME NEW ldr \in Seq(Snippet), NEW app \in Seq(Snippet), Len(app) >= 2, StartsWithJump(app)
  PROVE  EndOf(AllIn1(ldr, app)) \in Nat /\ EndOf(AllIn1(ldr, app)) >= LdrMeta + 3
<1> DEFINE all == AllIn1(ldr, app)
           k   == Len(ldr) + 1
<1>1. /\ all \in Seq(Snippet) /\ Len(ldr) \in Nat /\ DOMAIN all = 1 .. Len(ldr) + Len(app)
      /\ all[k].addr = LdrMeta /\ Len(all[k].dat) = 3
  BY AllIn1Is
<1> HIDE DEF all
<1>2. k \in 1 .. Len(ldr) + Len(app)
  <2> DEFINE n == Len(ldr)
             m == Len(app)
  <2>1. n \in Nat /\ m \in Nat /\ m >= 2
    BY LenProperties
  <2> HIDE DEF n, m
  <2>2. n + 1 \in 1 .. n + m
    BY <2>1
  <2> QED
    BY <2>2 DEF n, m
<1> HIDE DEF k
<1>3. EndOf(all) \in Nat /\ all[k].addr + Len(all[k].dat) <= EndOf(all)
  BY <1>1, <1>2, EndsAre
<1>4. LdrMeta \in Nat
  BY ToolsAssumption DEF LdrMeta
<1> DEFINE end == EndOf(all)
           l   == Len(all[k].dat)
           at  == all[k].addr
<1> HIDE DEF end, l, at
<1>5. at = LdrMeta /\ l = 3 /\ end \in Nat /\ at + l <= end
  BY <1>1, <1>3 DEF end, l, at
<1>6. end >= LdrMeta + 3
  BY <1>4, <1>5
<1> QED
  BY <1>3, <1>6 DEF end, all

\* Where the boot loader has its bytes, Merge lays them out as they are alone.
LEMMA LoaderLaidOut ==
  ASSUME NEW ldr \in Seq(Snippet), NEW app \in Seq(Snippet), NEW fill,
         Len(app) >= 2, Buildable(app), EndOf(ldr) <= LdrSize,
         NEW j \in DOMAIN ldr, NEW a \in ldr[j].addr + 1 .. ldr[j].addr + Len(ldr[j].dat)
  PROVE  /\ a \in 1 .. LdrSize /\ a \in 1 .. EndOf(AllIn1(ldr, app))
         /\ Layout(AllIn1(ldr, app), fill)[a] = Layout(ldr, 0)[a]
<1> DEFINE all == AllIn1(ldr, app)
           n   == Len(ldr)
           m   == Len(app)
           here == Over(ldr, a)
           k    == Max(here)
<1>1. StartsWithJump(app) /\ \A s \in Range(Tail(app)) : s.addr >= LdrMeta + 3
  BY DEF Buildable
<1>2. /\ all \in Seq(Snippet) /\ n \in Nat
      /\ DOMAIN all = 1 .. n + m /\ DOMAIN ldr = 1 .. n
      /\ \A i \in 1 .. n : all[i] = ldr[i]
      /\ all[n + 1].addr = LdrMeta
      /\ \A i \in n + 2 .. n + m : all[i] = app[i - n]
  BY <1>1, AllIn1Is
<1>3. LdrSize \in Nat /\ MetaSize \in Nat /\ LdrMeta \in Nat /\ LdrSize <= LdrMeta
  BY ToolsAssumption DEF LdrMeta
<1>4. m \in Nat /\ m >= 2
  BY LenProperties
<1>5. \A i \in 2 .. m : app[i] \in Range(Tail(app))
  <2> DEFINE tail == Tail(app)
  <2>1. app # <<>>
    BY DEF Buildable
  <2>2. /\ tail \in Seq(Snippet) /\ Len(tail) = Len(app) - 1
        /\ \A i \in 1 .. Len(tail) : tail[i] = app[i + 1]
    BY <2>1, HeadTailProperties
  <2>3. DOMAIN tail = 1 .. Len(tail)
    BY <2>2, LenProperties
  <2> HIDE DEF tail
  <2>4. DOMAIN tail = 1 .. m - 1 /\ \A i \in 1 .. m - 1 : tail[i] = app[i + 1]
    BY <2>2, <2>3
  <2> HIDE DEF m
  <2>5. ASSUME NEW i \in 2 .. m
        PROVE  i - 1 \in DOMAIN tail /\ tail[i - 1] = app[i]
    <3>1. i - 1 \in 1 .. m - 1 /\ (i - 1) + 1 = i
      BY <1>4
    <3> QED
      BY <2>4, <3>1
  <2>6. \A i \in 2 .. m : app[i] \in Range(tail)
    BY <2>5 DEF Range
  <2> QED
    BY <2>6 DEF tail
<1>6. \A i \in DOMAIN ldr : ldr[i].addr \in Nat /\ Len(ldr[i].dat) \in Nat
  <2>1. \A i \in DOMAIN ldr : ldr[i] \in Snippet
    BY LenProperties, ElementOfSeq
  <2> QED
    BY <2>1, SnippetTypes
<1> HIDE DEF all, n, m
<1>7. a \in Int /\ 1 <= a /\ a <= LdrSize /\ j \in here
  <2> DEFINE at  == ldr[j].addr
             len == Len(ldr[j].dat)
             end == EndOf(ldr)
  <2>1. end \in Nat /\ at + len <= end /\ end <= LdrSize /\ at \in Nat /\ len \in Nat
    BY <1>6, EndsAre
  <2>2. a \in at + 1 .. at + len
    OBVIOUS
  <2> HIDE DEF at, len, end
  <2>3. a \in Int /\ 1 <= a /\ a <= LdrSize /\ a - 1 - at \in 0 .. len - 1
    BY <1>3, <2>1, <2>2
  <2> QED
    BY <2>3 DEF Over, at, len
<1>8. ASSUME NEW i \in n + 1 .. n + m
      PROVE  all[i].addr \in Int /\ all[i].addr >= LdrMeta
  <2>1. CASE i = n + 1
    BY <1>2, <1>3, <2>1
  <2>2. CASE i # n + 1
    <3>1. i \in n + 2 .. n + m /\ i - n \in 2 .. m
      BY <1>2, <1>4, <2>2
    <3>2. all[i] = app[i - n] /\ all[i] \in Range(Tail(app))
      BY <1>2, <1>5, <3>1
    <3>3. all[i].addr >= LdrMeta + 3
      BY <1>1, <3>2
    <3>4. i \in DOMAIN all
      BY <1>2, <1>4, <3>1
    <3>5. all[i] \in Snippet
      BY <1>2, <3>4, LenProperties, ElementOfSeq
    <3>6. all[i].addr \in Nat
      BY <3>5, SnippetTypes
    <3> QED
      BY <1>3, <3>3, <3>6
  <2> QED
    BY <2>1, <2>2
<1>9. Over(all, a) = here
  <2>1. ASSUME NEW i \in DOMAIN all
        PROVE  i \in Over(all, a) <=> i \in here
    <3>1. CASE i \in 1 .. n
      BY <1>2, <3>1 DEF Over
    <3>2. CASE i \notin 1 .. n
      <4>1. i \in n + 1 .. n + m
        BY <1>2, <1>4, <3>2
      <4> DEFINE at  == all[i].addr
                 len == Len(all[i].dat)
      <4>2. at \in Int /\ at >= LdrMeta
        BY <1>8, <4>1
      <4> HIDE DEF at, len
      <4>3. ~(a - 1 - at \in 0 .. len - 1)
        BY <1>3, <1>7, <4>2
      <4>4. i \notin Over(all, a)
        BY <4>3 DEF Over, at, len
      <4>5. i \notin here
        BY <1>2, <3>2 DEF Over
      <4> QED
        BY <4>4, <4>5
    <3> QED
      BY <3>1, <3>2
  <2>2. here \subseteq DOMAIN all
    <3>1. DOMAIN ldr \subseteq DOMAIN all
      BY <1>2, <1>4
    <3> QED
      BY <3>1 DEF Over
  <2>3. Over(all, a) \subseteq DOMAIN all
    BY DEF Over
  <2> QED
    BY <2>1, <2>2, <2>3
<1>10. k \in DOMAIN ldr
  <2>1. here \in SUBSET (1 .. n) /\ here # {}
    BY <1>2, <1>7 DEF Over
  <2>2. IsFiniteSet(1 .. n) /\ (1 .. n) \in SUBSET Int
    <3>1. IsFiniteSet(1 .. n)
      BY <1>2, FS_Interval
    <3> QED
      BY <1>2, <3>1
  <2>3. here \in SUBSET Int /\ IsFiniteSet(here)
    BY <2>1, <2>2, FS_Subset
  <2>4. k \in here
    <3> HIDE DEF here
    <3> QED
      BY <2>1, <2>3, MaxOfFinite
  <2> QED
    BY <1>2, <2>1, <2>4
<1>11. a \in 1 .. EndOf(ldr) /\ a \in 1 .. EndOf(all)
  <2>1. EndOf(all) \in Nat /\ EndOf(all) >= LdrMeta + 3
    BY <1>1, MergeReaches DEF all
  <2>2. EndOf(ldr) \in Nat /\ a <= EndOf(ldr)
    <3> DEFINE at  == ldr[j].addr
               len == Len(ldr[j].dat)
               end == EndOf(ldr)
    <3>1. end \in Nat /\ at + len <= end /\ at \in Nat /\ len \in Nat
      BY <1>6, EndsAre
    <3>2. a \in at + 1 .. at + len
      OBVIOUS
    <3> HIDE DEF at, len, end
    <3>3. end \in Nat /\ a <= end
      BY <3>1, <3>2
    <3> QED
      BY <3>3 DEF end
  <2> QED
    BY <1>3, <1>7, <2>1, <2>2
<1>12. Over(ldr, a) # {} /\ Over(all, a) # {}
  BY <1>7, <1>9
<1>13. Layout(ldr, 0)[a] = ldr[k].dat[a - ldr[k].addr]
  BY <1>11, <1>12, LayoutIs
<1>14. Layout(all, fill)[a] = all[k].dat[a - all[k].addr]
  <2> DEFINE i == Max(Over(all, a))
  <2>1. Layout(all, fill)[a] = all[i].dat[a - all[i].addr]
    BY <1>2, <1>11, <1>12, LayoutIs
  <2>2. i = k
    BY <1>9
  <2> HIDE DEF i, k
  <2> QED
    BY <2>1, <2>2
<1>15. all[k] = ldr[k]
  BY <1>2, <1>10
<1>16. a \in 1 .. LdrSize
  BY <1>3, <1>7
<1> QED
  BY <1>11, <1>13, <1>14, <1>15, <1>16 DEF all

\* Metadata have their place between boot loader and application.
LEMMA MetaInPlace ==
  ASSUME NEW end \in Nat, end >= LdrMeta + 3, InfoLen <= MetaSize,
         NEW image, DOMAIN image = 1 .. end, Len(image) = end,
         NEW mdat \in Seq(Nat), Len(mdat) = InfoLen
  PROVE  LET e    == WithMeta(image, mdat)
             area == SubSeq(e, LdrSize + 1, LdrMeta)
         IN  /\ Len(e) = end /\ AppPart(e) = AppPart(image)
             /\ area[1] = mdat[1] /\ area[2] = mdat[2] /\ area[3] = mdat[3] /\ area[4] = mdat[4]
             /\ \A a \in 1 .. LdrSize : a \in 1 .. end => e[a] = image[a]
<1> DEFINE byte(a) == IF a - LdrSize \in 1 .. Len(mdat) THEN mdat[a - LdrSize] ELSE image[a]
           e == WithMeta(image, mdat)
           S == {byte(a) : a \in 1 .. end}
           l == Len(mdat)
<1>1. LdrSize \in Nat /\ MetaSize \in Nat /\ LdrMeta = LdrSize + MetaSize
  BY ToolsAssumption DEF LdrMeta
<1>2. l = 6 /\ 6 <= MetaSize
  BY DEF InfoLen
<1>3. e = [a \in 1 .. end |-> byte(a)]
  BY DEF WithMeta
<1> HIDE DEF e, l
<1>4. /\ \A a \in Int : a - LdrSize \in 1 .. l => byte(a) = mdat[a - LdrSize]
      /\ \A a \in Int : ~(a - LdrSize \in 1 .. l) => byte(a) = image[a]
  BY DEF l
<1> HIDE DEF byte
<1>5. e \in [1 .. end -> S] /\ DOMAIN e = 1 .. end /\ \A a \in 1 .. end : e[a] = byte(a)
  BY <1>3
<1> HIDE DEF S
<1>6. Len(e) = end
  BY <1>5, SequenceOf
<1>7. \A a \in LdrMeta + 1 .. end : e[a] = image[a]
  <2>1. ASSUME NEW a \in LdrMeta + 1 .. end
        PROVE  a \in Int /\ a \in 1 .. end /\ ~(a - LdrSize \in 1 .. l)
    BY <1>1, <1>2
  <2> QED
    BY <1>4, <1>5, <2>1
<1>8. AppPart(e) = AppPart(image)
  <2>1. LdrMeta + 1 \in Int /\ end \in Int
    BY <1>1
  <2>2. SubSeq(e, LdrMeta + 1, end) = SubSeq(image, LdrMeta + 1, end)
    BY <1>7, <2>1, SamePiece
  <2> QED
    BY <1>6, <2>2, Zenon DEF AppPart
<1>9. \A i \in 1 .. 6 : SubSeq(e, LdrSize + 1, LdrMeta)[i] = mdat[i]
  <2> DEFINE area == SubSeq(e, LdrSize + 1, LdrMeta)
  <2>1. LdrSize + 1 \in Int /\ LdrMeta \in Int
    BY <1>1
  <2>2. \A i \in LdrSize + 1 .. LdrMeta : e[i] \in S
    <3>1. \A i \in LdrSize + 1 .. LdrMeta : i \in 1 .. end
      BY <1>1
    <3> QED
      BY <1>5, <3>1
  <2>3. \A i \in 1 .. LdrMeta - (LdrSize + 1) + 1 : area[i] = e[(LdrSize + 1) + i - 1]
    BY <2>1, <2>2, SubSeqProperties
  <2> HIDE DEF area
  <2>4. ASSUME NEW i \in 1 .. 6
        PROVE  area[i] = mdat[i]
    <3> DEFINE a == LdrSize + i
    <3>1. /\ i \in 1 .. LdrMeta - (LdrSize + 1) + 1 /\ (LdrSize + 1) + i - 1 = a
          /\ a \in Int /\ a \in 1 .. end /\ a - LdrSize = i /\ i \in 1 .. l
      BY <1>1, <1>2
    <3> HIDE DEF a
    <3>2. area[i] = e[a] /\ e[a] = byte(a)
      BY <1>5, <2>3, <3>1
    <3> QED
      BY <1>4, <3>1, <3>2
  <2> QED
    BY <2>4 DEF area
<1>10. \A a \in 1 .. LdrSize : a \in 1 .. end => e[a] = image[a]
  <2>1. \A a \in 1 .. LdrSize : a \in Int /\ ~(a - LdrSize \in 1 .. l)
    BY <1>1
  <2> QED
    BY <1>4, <1>5, <2>1
<1>11. /\ SubSeq(e, LdrSize + 1, LdrMeta)[1] = mdat[1] /\ SubSeq(e, LdrSize + 1, LdrMeta)[2] = mdat[2]
       /\ SubSeq(e, LdrSize + 1, LdrMeta)[3] = mdat[3] /\ SubSeq(e, LdrSize + 1, LdrMeta)[4] = mdat[4]
  <2> DEFINE area == SubSeq(e, LdrSize + 1, LdrMeta)
  <2> HIDE DEF area
  <2>1. \A i \in 1 .. 6 : area[i] = mdat[i]
    BY <1>9 DEF area
  <2>2. area[1] = mdat[1] /\ area[2] = mdat[2] /\ area[3] = mdat[3] /\ area[4] = mdat[4]
    BY <2>1
  <2> QED
    BY <2>2, Zenon DEF area
<1> QED
  BY <1>6, <1>8, <1>10, <1>11 DEF e

-----------------------------------------------------------------------------
\* Metadata that are whole are six bytes of a build.
RomInv ==
  /\ ldr_hex \in LdrHexes /\ app_hex \in AppHexes
  /\ "how" \in DOMAIN shown
  /\ "meta" \in DOMAIN files /\ Len(files["meta"]) = InfoLen => files["meta"] \in Seq(Nat)
  /\ MergedIsGood

LEMMA RomStarts ==
  ASSUME ImageInit
  PROVE  RomInv
<1>1. ldr_hex \in LdrHexes /\ app_hex \in AppHexes /\ DOMAIN files = {}
  BY DEF ImageInit, NoFiles
<1>2. shown = [how |-> "file", hex |-> app_hex, fill |-> 0]
  BY DEF ImageInit
<1>3. "how" \in DOMAIN shown /\ shown.how # "merged"
  BY <1>2
<1> QED
  BY <1>1, <1>3 DEF RomInv, MergedIsGood

LEMMA RomBuilds ==
  ASSUME RomInv, NEW fill \in Fillers, NEW version \in AppVersions, hex2metabin(fill, version)
  PROVE  RomInv'
<1> DEFINE bin  == BinOf(app_hex.snippets, fill)
           info == AppInfo(bin, version)
<1>1. bin \in Images
  BY DEF hex2metabin, Images, RomInv
<1>2. info \in Seq(Nat) /\ Len(info) = InfoLen
  BY <1>1, InfoIs
<1>3. Len(CutShort(info)) # InfoLen
  <2>1. Len(info) = 6
    BY <1>2 DEF InfoLen
  <2> HIDE DEF info
  <2>2. \A i \in 1 .. 5 : info[i] \in Nat
    <3>1. \A i \in 1 .. 5 : i \in 1 .. Len(info)
      BY <2>1
    <3> QED
      BY <1>2, <3>1, ElementOfSeq
  <2>3. Len(SubSeq(info, 1, 5)) = IF 1 <= 5 THEN 5 - 1 + 1 ELSE 0
    BY <2>2, SubSeqProperties
  <2> DEFINE n    == Len(info)
             l(k) == Len(SubSeq(info, 1, k))
  <2> HIDE DEF n, l
  <2>4. n = 6 /\ l(5) = IF 1 <= 5 THEN 5 - 1 + 1 ELSE 0
    BY <2>1, <2>3 DEF n, l
  <2>5. l(n - 1) # InfoLen
    BY <2>4 DEF InfoLen
  <2> QED
    BY <2>5, Zenon DEF n, l, CutShort
<1>4. \E meta \in {info, CutShort(info)}, app \in {bin, CutShort(bin)} :
        \/ files' = With(files, "meta", meta)
        \/ files' = With(With(files, "meta", meta), "app", app)
  BY DEF hex2metabin, Written
<1> HIDE DEF bin, info
<1>5. /\ files'["meta"] \in {info, CutShort(info)}
      /\ "allin1" \in DOMAIN files' => "allin1" \in DOMAIN files /\ files'["allin1"] = files["allin1"]
  <2>1. PICK meta \in {info, CutShort(info)}, app \in {bin, CutShort(bin)} :
          \/ files' = With(files, "meta", meta)
          \/ files' = With(With(files, "meta", meta), "app", app)
    BY <1>4
  <2> DEFINE one == With(files, "meta", meta)
             two == With(one, "app", app)
  <2>2. /\ DOMAIN one = DOMAIN files \cup {"meta"} /\ one["meta"] = meta
        /\ \A n \in DOMAIN files : n # "meta" => one[n] = files[n]
    BY DEF With
  <2> HIDE DEF one
  <2>3. /\ DOMAIN two = DOMAIN one \cup {"app"}
        /\ \A n \in DOMAIN one : n # "app" => two[n] = one[n]
    BY DEF With
  <2> HIDE DEF two
  <2>4. files' = one \/ files' = two
    BY <2>1 DEF one, two
  <2>5. "meta" # "app" /\ "allin1" # "meta" /\ "allin1" # "app"
    OBVIOUS
  <2> QED
    BY <2>1, <2>2, <2>3, <2>4, <2>5
<1>6. Len(files'["meta"]) = InfoLen => files'["meta"] \in Seq(Nat)
  BY <1>2, <1>3, <1>5
<1>7. ldr_hex' = ldr_hex /\ app_hex' = app_hex /\ e2' = e2 /\ shown' = shown
  BY DEF hex2metabin
<1> QED
  BY <1>5, <1>6, <1>7 DEF RomInv, MergedIsGood, LoaderKept

\* Open and Patch.
LEMMA RomOpens ==
  ASSUME RomInv, NEW name, NEW fill, OpenBin(name) \/ OpenHex(fill) \/ slotPatch
  PROVE  RomInv'
<1>1. ldr_hex' = ldr_hex /\ app_hex' = app_hex /\ files' = files
  BY DEF OpenBin, OpenHex, slotPatch
<1>2. "how" \in DOMAIN shown' /\ shown'.how # "merged"
  <2>1. CASE OpenBin(name)
    <3>1. shown' = [how |-> "file", hex |-> app_hex, fill |-> 0]
      BY <2>1 DEF OpenBin
    <3> QED
      BY <3>1
  <2>2. CASE OpenHex(fill)
    <3>1. shown' = [how |-> "hex", hex |-> app_hex, fill |-> fill]
      BY <2>2 DEF OpenHex
    <3> QED
      BY <3>1
  <2>3. CASE slotPatch
    <3>1. shown' = [shown EXCEPT !.how = IF @ = "hex" THEN "patched" ELSE "file"]
      BY <2>3 DEF slotPatch
    <3>2. "how" \in DOMAIN shown
      BY DEF RomInv
    <3>3. "how" \in DOMAIN shown' /\ shown'.how \in {"patched", "file"}
      BY <3>1, <3>2
    <3> QED
      BY <3>3
  <2> QED
    BY <2>1, <2>2, <2>3
<1> QED
  BY <1>1, <1>2 DEF RomInv, MergedIsGood

\* Merge: what it saves has its metadata in place, and what it shows has the
\* boot loader.
LEMMA RomMerges ==
  ASSUME RomInv, NEW fill, slotMerge(fill)
  PROVE  RomInv'
<1> DEFINE ldr   == ldr_hex.snippets
           app   == app_hex.snippets
           all   == AllIn1(ldr, app)
           image == Layout(all, fill)
           mdat  == files["meta"]
           end   == EndOf(all)
<1>1. /\ AppTaken(app_hex) /\ "meta" \in DOMAIN files
      /\ Len(mdat) = InfoLen /\ InfoLen <= MetaSize
      /\ shown' = [how |-> "merged", hex |-> app_hex, fill |-> fill]
      /\ \/ /\ MetaMatches(mdat, image) /\ e2' = WithMeta(image, mdat)
            /\ files' = files \/ files' = With(files, "allin1", e2')
         \/ e2' = image /\ files' = files
      /\ ldr_hex' = ldr_hex /\ app_hex' = app_hex
  BY DEF slotMerge, AllIn1, Written
<1>2. ldr \in Seq(Snippet) /\ app \in Seq(Snippet) /\ Len(app) >= 2 /\ StartsWithJump(app)
  BY <1>1, ToolsAssumption DEF RomInv, AppTaken
<1>3. mdat \in Seq(Nat)
  BY <1>1 DEF RomInv
<1>4. shown'.how = "merged" /\ shown'.hex = app_hex /\ "how" \in DOMAIN shown'
  BY <1>1
<1> HIDE DEF ldr, app
<1>5. end \in Nat /\ end >= LdrMeta + 3 /\ all \in Seq(Snippet)
  BY <1>2, MergeReaches, AllIn1Is
<1> HIDE DEF all
<1>6. DOMAIN image = 1 .. end /\ Len(image) = end
  BY <1>5, LayoutIs
<1> HIDE DEF image, mdat, end
<1>7. /\ Len(WithMeta(image, mdat)) = end /\ AppPart(WithMeta(image, mdat)) = AppPart(image)
      /\ LET area == SubSeq(WithMeta(image, mdat), LdrSize + 1, LdrMeta)
         IN  area[1] = mdat[1] /\ area[2] = mdat[2] /\ area[3] = mdat[3] /\ area[4] = mdat[4]
      /\ \A a \in 1 .. LdrSize : a \in 1 .. end => WithMeta(image, mdat)[a] = image[a]
  BY <1>1, <1>3, <1>5, <1>6, MetaInPlace
<1>8. "allin1" \in DOMAIN files' =>
        Describes(SubSeq(files'["allin1"], LdrSize + 1, LdrMeta), AppPart(files'["allin1"]))
  <2>1. CASE files' = files
    BY <2>1 DEF RomInv, MergedIsGood
  <2>2. CASE /\ MetaMatches(mdat, image) /\ e2' = WithMeta(image, mdat)
             /\ files' = With(files, "allin1", e2')
    <3> DEFINE e    == WithMeta(image, mdat)
               area == SubSeq(e, LdrSize + 1, LdrMeta)
    <3>1. files'["allin1"] = e
      BY <2>2 DEF With
    <3>2. /\ ByteBase * mdat[1] + mdat[2] = Len(AppPart(image))
          /\ ByteBase * mdat[3] + mdat[4] = Crc(AppPart(image))
      BY <1>1, <1>3, <2>2, FieldsAre DEF MetaMatches
    <3>3. AppPart(e) = AppPart(image)
      BY <1>7
    <3>4. area[1] = mdat[1] /\ area[2] = mdat[2] /\ area[3] = mdat[3] /\ area[4] = mdat[4]
      BY <1>7
    <3> HIDE DEF area, e
    <3>5. Describes(area, AppPart(e))
      BY <3>2, <3>3, <3>4 DEF Describes
    <3> QED
      BY <3>1, <3>5 DEF area
  <2> QED
    BY <1>1, <2>1, <2>2
<1>9. ASSUME Buildable(app), EndOf(ldr) <= LdrSize
      PROVE  LoaderKept'
  <2>1. ASSUME NEW j \in DOMAIN ldr, NEW a \in ldr[j].addr + 1 .. ldr[j].addr + Len(ldr[j].dat)
        PROVE  e2'[a] = Layout(ldr, 0)[a]
    <3>1. a \in 1 .. LdrSize /\ a \in 1 .. end /\ image[a] = Layout(ldr, 0)[a]
      BY <1>2, <1>9, LoaderLaidOut DEF image, end, all
    <3>2. WithMeta(image, mdat)[a] = image[a]
      BY <1>7, <3>1
    <3> QED
      BY <1>1, <3>1, <3>2
  <2>2. ldr_hex'.snippets = ldr
    BY <1>1 DEF ldr
  <2>3. \A s \in Range(ldr) : \E j \in DOMAIN ldr : s = ldr[j]
    BY DEF Range
  <2>4. \A s \in Range(ldr) : \A a \in s.addr + 1 .. s.addr + Len(s.dat) : e2'[a] = Layout(ldr, 0)[a]
    BY <2>1, <2>3
  <2> QED
    BY <2>2, <2>4 DEF LoaderKept
<1>10. MergedIsGood'
  <2>1. ldr_hex'.snippets = ldr /\ shown'.hex.snippets = app
    BY <1>1, <1>4 DEF ldr, app
  <2> QED
    BY <1>8, <1>9, <2>1 DEF MergedIsGood
<1>11. "meta" \in DOMAIN files' /\ files'["meta"] = mdat
  <2>1. CASE files' = files
    BY <1>1, <2>1 DEF mdat
  <2>2. CASE files' = With(files, "allin1", e2')
    <3>1. "meta" # "allin1"
      OBVIOUS
    <3> QED
      BY <1>1, <2>2, <3>1 DEF With, mdat
  <2> QED
    BY <1>1, <2>1, <2>2
<1> QED
  BY <1>1, <1>3, <1>4, <1>10, <1>11 DEF RomInv

\* Merge saves an image only when the metadata are those of the application in
\* it, and puts them where the boot loader looks; neither they nor the
\* application, moved or not, reach where the boot loader is.
THEOREM MergeKeeps == ImageSpec => []MergedIsGood
<1>1. ImageInit => RomInv
  BY RomStarts
<1>2. ASSUME RomInv, [ImageNext]_imageVars
      PROVE  RomInv'
  <2>1. CASE Link
    <3>1. /\ app_hex' \in AppHexes
          /\ UNCHANGED <<ldr_hex, files, e2, shown, made, builds>>
      BY <2>1 DEF Link
    <3> QED
      BY <1>2, <3>1 DEF RomInv, MergedIsGood, LoaderKept
  <2>2. ASSUME NEW f \in Fillers, NEW v \in AppVersions, hex2metabin(f, v)
        PROVE  RomInv'
    BY <1>2, <2>2, RomBuilds
  <2>3. ASSUME NEW n \in DOMAIN files, OpenBin(n)
        PROVE  RomInv'
    BY <1>2, <2>3, RomOpens
  <2>4. ASSUME NEW f \in Fillers, OpenHex(f)
        PROVE  RomInv'
    BY <1>2, <2>4, RomOpens
  <2>5. CASE slotPatch
    BY <1>2, <2>5, RomOpens
  <2>6. ASSUME NEW f \in Fillers, slotMerge(f)
        PROVE  RomInv'
    BY <1>2, <2>6, RomMerges
  <2>7. CASE UNCHANGED imageVars
    BY <1>2, <2>7 DEF RomInv, MergedIsGood, LoaderKept, imageVars
  <2> QED
    BY <1>2, <2>1, <2>2, <2>3, <2>4, <2>5, <2>6, <2>7 DEF ImageNext, RomNext
<1>3. RomInv => MergedIsGood
  BY DEF RomInv
<1> QED
  BY <1>1, <1>2, <1>3, PTL DEF ImageSpec
=============================================================================
