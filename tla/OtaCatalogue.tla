---------------------------- MODULE OtaCatalogue ----------------------------
(***************************************************************************)
(* The catalogue of the OTA server: images in the window's memory with a   *)
(* list of them, their files in the folder ota_apps, named by the version, *)
(* and configuration files that say what to load.  The program can end     *)
(* between two steps of an edit.                                           *)
(***************************************************************************)
EXTENDS ImageTools

CONSTANTS Default, ConfPaths, MaxItems

NoVersion == 0

FileOf(version) == "ota_apps/" \o ToString(version)

\* Versions have files of their own, and the image of a build is told by size
\* and CRC from every other file that is written.
ASSUME FilesAssumption ==
  \A v \in AppVersions : /\ FileOf(v) \notin {"meta", "app"}
                         /\ \A w \in AppVersions : FileOf(v) = FileOf(w) => v = w

OtherFiles ==
  {CutShort(image) : image \in Images} \cup
  {AppInfo(image, version) : image \in Images, version \in AppVersions}

ASSUME CrcAssumption ==
  \A image \in Images, other \in Images \cup OtherFiles :
    Len(image) = Len(other) /\ Crc(image) = Crc(other) => image = other

VARIABLES
  ota_apps,            \* version -> [info, bin]; its file is FileOf(version)
  lstApps,             \* the versions of the list's items
  ota_latest_version,
  ota_conf_path,       \* where edits are saved
  confs,               \* the configuration files: [apps, latest_version]
  \* The history.
  built,               \* what hex2metabin was to make: <<version, image>>
  removed,             \* versions taken out and not put in again
  undeleted,           \* those of them whose file could not be removed then
  spoiled,             \* versions whose file could not be replaced
  source               \* the configuration that says what the catalogue is

catalogueVars == <<ota_apps, lstApps, ota_latest_version, ota_conf_path, confs,
                   built, removed, undeleted, spoiled, source>>

NoApps == [v \in {} |-> <<>>]
Paths == {Default} \cup ConfPaths

-----------------------------------------------------------------------------
\* An image with its metadata, as createOtaAppByMetaAndBin takes it.
ChecksSize(info, bin) == info.size = Len(bin)  \* mutant: the CRC forgotten

Checks(info, bin) == info.size = Len(bin) /\ info.crc = Crc(bin)

InfoOf(mdat) == [version |-> VersionIn(mdat), size |-> SizeIn(mdat), crc |-> CrcIn(mdat)]

createOtaAppByMetaAndBin(mdat, bin) ==
  /\ Len(bin) <= E2_MAX_SIZE
  /\ Len(mdat) = InfoLen
  /\ Checks(InfoOf(mdat), bin)

-----------------------------------------------------------------------------
\* What loadOtaConfig finds: the entries whose files are there and match.
Good(info, fs) ==
  /\ FileOf(info.version) \in DOMAIN fs
  /\ Checks(info, fs[FileOf(info.version)])

Loaded(conf, fs) ==
  [v \in {w \in DOMAIN conf.apps : Good(conf.apps[w], fs)} |->
     [info |-> conf.apps[v], bin |-> fs[FileOf(v)]]]

Saved(apps, latest) ==
  [apps |-> [v \in DOMAIN apps |-> apps[v].info], latest_version |-> latest]

\* The items of the map, in the order of their versions.
Ascending(S) ==
  [i \in 1 .. Cardinality(S) |-> CHOOSE v \in S : Cardinality({w \in S : w < v}) = i - 1]

\* Mutant: the images loaded before stay, their items go.
KeepsApps(path, fs, cs) ==
  /\ ota_apps' = Loaded(cs[path], fs) @@ ota_apps
  /\ lstApps' = Ascending(DOMAIN Loaded(cs[path], fs))
  /\ ota_latest_version' = cs[path].latest_version
  /\ source' = path /\ spoiled' = {}

loadOtaConfig(path, fs, cs) ==
  /\ ota_apps' = Loaded(cs[path], fs)
  /\ lstApps' = Ascending(DOMAIN ota_apps')
  /\ ota_latest_version' = cs[path].latest_version
  /\ source' = path /\ spoiled' = {}

\* Mutant: saved before the catalogue is changed.
SavesEarly(path, apps, latest) ==
  /\ ota_conf_path' = path
  /\ confs' = With(confs, path, Saved(ota_apps, latest))
  /\ source' = path

saveOtaConfig(path, apps, latest) ==
  /\ ota_conf_path' = path
  /\ confs' = With(confs, path, Saved(apps, latest))
  /\ source' = path

\* The program starts: the constructor loads the default configuration.
Started(fs) ==
  /\ loadOtaConfig(Default, fs, confs)
  /\ ota_conf_path' = Default
  /\ UNCHANGED confs

Restart ==
  /\ Started(files)
  /\ UNCHANGED <<imageVars, built, removed, undeleted>>

slotLoadOtaConfig ==
  /\ \E path \in DOMAIN confs : loadOtaConfig(path, files, confs)
  /\ UNCHANGED <<imageVars, ota_conf_path, confs, built, removed, undeleted>>

\* The path is that of the field leConfPath, which the operator can edit.
slotSaveOtaConfig ==
  /\ \E path \in Paths : saveOtaConfig(path, ota_apps, ota_latest_version)
  /\ UNCHANGED <<imageVars, ota_apps, lstApps, ota_latest_version, built, removed,
                 undeleted, spoiled>>

-----------------------------------------------------------------------------
\* The file of an image is removed, and the one chosen copied in its place;
\* the one chosen may be that very file.
Without(fs, name) == Restrict(fs, DOMAIN fs \ {name})

Copied(fs, name, version) ==
  LET rest == Without(fs, FileOf(version))
  IN  IF name \in DOMAIN rest THEN {Written(rest, FileOf(version), fs[name]), rest} ELSE {rest}

LastAdded(version) == version  \* mutant

Latest(version) ==
  IF ota_latest_version = NoVersion \/ version > ota_latest_version
  THEN version ELSE ota_latest_version

\* The old file could not be removed, which nobody looks at, and QFile::copy
\* does not overwrite: the addition is given up.
AddRefused(v) == FileOf(v) \in DOMAIN files /\ UNCHANGED <<files, catalogueVars>>

\* The old file is gone, the copy was not made.
AddFails(v) ==
  /\ FileOf(v) \notin DOMAIN files'
  /\ spoiled' = spoiled \cup {v}
  /\ UNCHANGED <<ota_apps, lstApps, ota_latest_version, ota_conf_path, confs,
                 built, removed, undeleted, source>>

AddSaves(v, info, bin) ==
  /\ FileOf(v) \in DOMAIN files'
  /\ ota_apps' = With(ota_apps, v, [info |-> info, bin |-> bin])
  /\ lstApps' = Append(lstApps, v)
  /\ ota_latest_version' = Latest(v)
  /\ saveOtaConfig(ota_conf_path, ota_apps', ota_latest_version')
  /\ removed' = removed \ {v} /\ undeleted' = undeleted \ {v} /\ spoiled' = spoiled \ {v}
  /\ UNCHANGED built

\* The program ends before the configuration is saved.
AddEnds(v) ==
  /\ FileOf(v) \in DOMAIN files' /\ Started(files')
  /\ removed' = removed \ {v} /\ undeleted' = undeleted \ {v}
  /\ UNCHANGED built

\* The operator chooses an image, "app" or one of the folder, and the
\* metadata.  An image that is there already is replaced, and listed again.
slotAddOtaApp(name) ==
  /\ {"meta", name} \subseteq DOMAIN files
  /\ createOtaAppByMetaAndBin(files["meta"], files[name])
  /\ Len(lstApps) < MaxItems
  /\ LET info == InfoOf(files["meta"])
         v    == info.version
     IN  \/ AddRefused(v)
         \/ /\ files' \in Copied(files, name, v)
            /\ AddFails(v) \/ AddSaves(v, info, files[name]) \/ AddEnds(v)
  /\ UNCHANGED <<ldr_hex, app_hex, e2, shown, made, builds>>

\* Of the latest version, the next latest is looked for among all images, the
\* removed one among them.
NextLatest(version) ==
  IF version = ota_latest_version THEN Max({NoVersion} \cup DOMAIN ota_apps)
  ELSE ota_latest_version

\* Mutant: the file is removed last, and the program may end before that.
RemovedLast(v) ==
  IF v \in DOMAIN ota_apps
  THEN /\ removed' = removed \cup {v} /\ undeleted' = undeleted \ {v}
       /\ files' \in {Without(files, FileOf(v)), files}
  ELSE UNCHANGED <<files, removed, undeleted>>

\* The removal of the file may fail, which nobody looks at.
RemoveFile(v) ==
  IF v \in DOMAIN ota_apps
  THEN /\ removed' = removed \cup {v}
       /\ \/ files' = Without(files, FileOf(v)) /\ undeleted' = undeleted \ {v}
          \/ /\ FileOf(v) \in DOMAIN files
             /\ undeleted' = undeleted \cup {v} /\ UNCHANGED files
  ELSE UNCHANGED <<files, removed, undeleted>>

slotRemoveOtaApp(i) ==
  LET v == lstApps[i]
  IN  /\ RemoveFile(v)
      /\ \/ /\ lstApps' = RemoveAt(lstApps, i)
            /\ ota_latest_version' = NextLatest(v)
            /\ ota_apps' = Restrict(ota_apps, DOMAIN ota_apps \ {v})
            /\ saveOtaConfig(ota_conf_path, ota_apps', ota_latest_version')
            /\ UNCHANGED spoiled
         \* The program ends before the configuration is saved.
         \/ Started(files')
      /\ UNCHANGED <<ldr_hex, app_hex, e2, shown, made, builds, built>>

\* A build: what it is to make goes into the history.
Build ==
  /\ \E f \in Fillers, v \in AppVersions :
       /\ hex2metabin(f, v)
       /\ built' = built \cup {<<v, BinOf(app_hex.snippets, f)>>}
  /\ UNCHANGED <<ota_apps, lstApps, ota_latest_version, ota_conf_path, confs,
                 removed, undeleted, spoiled, source>>

-----------------------------------------------------------------------------
CatalogueInit ==
  /\ ota_apps = NoApps /\ lstApps = <<>> /\ ota_latest_version = NoVersion
  /\ ota_conf_path = Default
  /\ confs = [path \in {Default} |-> Saved(NoApps, NoVersion)]
  /\ built = {} /\ removed = {} /\ undeleted = {} /\ spoiled = {} /\ source = Default

CatalogueNext ==
  \/ Restart \/ slotLoadOtaConfig \/ slotSaveOtaConfig
  \/ \E name \in DOMAIN files : slotAddOtaApp(name)
  \/ \E i \in DOMAIN lstApps : slotRemoveOtaApp(i)

\* The build and the catalogue.
CatalogueSpec ==
  /\ ImageInit /\ CatalogueInit
  /\ [][(Link /\ UNCHANGED catalogueVars) \/ Build \/ CatalogueNext]_<<imageVars, catalogueVars>>

-----------------------------------------------------------------------------
\* What the server offers is an image of one build with the version of that
\* build, also when a build was cut short between its two files.
OfferedIsBuilt ==
  \A v \in DOMAIN ota_apps : <<v, ota_apps[v].bin>> \in built /\ ota_apps[v].info.version = v

\* The window shows what the server offers: every image has an item by which it
\* can be removed, and none is newer than the version announced as the latest.
OffersAreShown ==
  \A v \in DOMAIN ota_apps : v \in Range(lstApps) /\ v <= ota_latest_version

\* The configuration that was loaded or saved last would give the catalogue
\* again, but for images whose file could not be replaced.
CatalogueOnDisk ==
  LET onDisk == Loaded(confs[source], files)
      kept   == DOMAIN ota_apps \ spoiled
  IN  DOMAIN onDisk \ spoiled = kept /\ \A v \in kept : onDisk[v] = ota_apps[v]

\* An image taken out of the catalogue together with its file is not offered
\* again until one of that version is put in, whatever old configurations say
\* and whenever the program ends.  One whose file could not be removed may come
\* back with an old configuration.
RemovedStaysAway == DOMAIN ota_apps \cap removed \subseteq undeleted
=============================================================================
