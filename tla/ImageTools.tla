----------------------------- MODULE ImageTools -----------------------------
(***************************************************************************)
(* The programs that turn a linked application into the images the boards  *)
(* are given: hex2metabin, run by the build, and Open, Patch and Merge of  *)
(* the programmer's window.  A hex file is the snippets its records merge  *)
(* into; an image is a sequence of bytes, its byte at address a at a + 1.  *)
(***************************************************************************)
EXTENDS Integers, SequencesExt, FiniteSetsExt, Functions

CONSTANTS
  ByteBase,          \* values of a byte; app_info_t has words of two bytes here
  LdrSize, MetaSize, \* boot loader and metadata areas of the chip
  E2_MAX_SIZE,       \* size of the chip's flash
  LdrHexes, AppHexes, \* hex files: [text, snippets], a snippet [addr, dat]
  Fillers,           \* bytes that gaps are filled with
  AppVersions,       \* versions a build may have
  MaxBuilds          \* bound on the builds

LdrMeta == LdrSize + MetaSize

VARIABLES
  ldr_hex, app_hex,  \* what the linker wrote
  files,             \* binary files, by name
  e2,                \* the window's image, what Program sends
  shown,             \* how e2 came about: [how, hex, fill]
  made,              \* what hex2metabin was last run for, and whether it ended
  builds             \* its runs

imageVars == <<ldr_hex, app_hex, files, e2, shown, made, builds>>

Byte == 0 .. ByteBase - 1
Word == 0 .. ByteBase * ByteBase - 1

Snippet == [addr : Nat, dat : Seq(Byte)]

ASSUME ToolsAssumption ==
  /\ ByteBase \in Nat \ {0} /\ LdrSize \in Nat /\ MetaSize \in Nat
  /\ \A hex \in LdrHexes \cup AppHexes : hex.snippets \in Seq(Snippet)
  /\ Fillers \subseteq Byte /\ AppVersions \subseteq Word

-----------------------------------------------------------------------------
\* Words of a file are big-endian, those of the PC little-endian; rev32 turns
\* one into the other.  Crc stands for hb_crc32: it tells the images apart.
Little(n) == <<n % ByteBase, n \div ByteBase>>
rev(word) == Reverse(word)
Value(word) == word[1] + ByteBase * word[2]

Crc(bytes) == FoldLeft(LAMBDA a, b : (31 * a + b + 1) % (ByteBase * ByteBase), 7, bytes)

AppInfo(bin, version) ==
  rev(Little(Len(bin))) \o rev(Little(Crc(bin))) \o rev(Little(version))

InfoLen == 6

Field(mdat, i) == Value(rev(SubSeq(mdat, 2 * i - 1, 2 * i)))
SizeIn(mdat) == Field(mdat, 1)
CrcIn(mdat) == Field(mdat, 2)
VersionIn(mdat) == Field(mdat, 3)

\* How the boot loader, whose words are big-endian, looks at metadata.
Describes(mdat, image) ==
  /\ ByteBase * mdat[1] + mdat[2] = Len(image)
  /\ ByteBase * mdat[3] + mdat[4] = Crc(image)

-----------------------------------------------------------------------------
\* The disassembler goes through a snippet instruction by instruction; it
\* fails at one that is not all there.
LowerThree == {2, 16, 18, 32, 48, 67, 83, 99, 117}
LowerOne == {0, 3, 4, 19, 20, 34, 35, 50, 51, 115} \cup {op \in 0 .. 111 : op % 16 >= 6}
UpperThree == {133, 144, 213} \cup 180 .. 191
UpperOne ==
  {131, 132, 147, 163, 164, 179, 195, 196, 211, 212, 214, 215, 224, 226, 227, 228, 240, 242,
   243, 244} \cup {op \in 128 .. 255 : op \div 16 \in {9, 12, 14, 15} /\ op % 16 >= 6}

InstructionBytes(op) ==
  IF op \in LowerThree \cup UpperThree THEN 3 ELSE IF op \in LowerOne \cup UpperOne THEN 1 ELSE 2

disasm(dat) ==
  FoldLeft(LAMBDA left, op : IF left > 0 THEN left - 1 ELSE InstructionBytes(op) - 1,
           0, dat) = 0

-----------------------------------------------------------------------------
\* Snippets laid out: each over the ones before it, the filler in the gaps.
EndOf(snippets) == Max({0} \cup {s.addr + Len(s.dat) : s \in Range(snippets)})

Layout(snippets, fill) ==
  [a \in 1 .. EndOf(snippets) |->
     LET over == {k \in DOMAIN snippets : a - 1 - snippets[k].addr \in 0 .. Len(snippets[k].dat) - 1}
     IN  IF over = {} THEN fill ELSE snippets[Max(over)].dat[a - snippets[Max(over)].addr]]

StartsWithJump(snippets) ==
  /\ snippets[1].addr = 0 /\ Len(snippets[1].dat) = 3 /\ snippets[1].dat[1] = 2

\* What hex2metabin takes, and the image it makes: the jump and behind it the
\* other snippets one after the other, with the filler before one further up.
Buildable(snippets) ==
  /\ snippets # <<>> /\ StartsWithJump(snippets)
  /\ \A s \in Range(Tail(snippets)) : s.addr >= LdrMeta + 3

Filled(bin, addr, fill) ==
  bin \o [i \in 1 .. Max({0, addr - (Len(bin) + LdrMeta)}) |-> fill]

BinOf(snippets, fill) ==
  FoldLeft(LAMBDA bin, s : Filled(bin, s.addr, fill) \o s.dat,
           snippets[1].dat, Tail(snippets))

\* What the builds of the applications may make.
Images ==
  {BinOf(hex.snippets, fill) : hex \in {h \in AppHexes : Buildable(h.snippets)}, fill \in Fillers}

ASSUME ImagesAssumption == \A image \in Images : image \in Seq(Byte) /\ Crc(image) \in Word

\* Snippets in the order of their addresses, none over another.
Ordered(snippets) ==
  \A k \in 2 .. Len(snippets) :
    snippets[k - 1].addr + Len(snippets[k - 1].dat) <= snippets[k].addr

-----------------------------------------------------------------------------
\* The linker writes another application.
Link ==
  /\ \E h \in AppHexes : app_hex' = h
  /\ UNCHANGED <<ldr_hex, files, e2, shown, made, builds>>

\* A file written whole, cut short, or not opened at all.
With(f, x, y) == [z \in DOMAIN f \cup {x} |-> IF z = x THEN y ELSE f[z]]
Written(fs, name, bytes) == With(fs, name, bytes)
CutShort(bytes) == SubSeq(bytes, 1, Len(bytes) - 1)

\* main of hex2metabin: the metadata is written first, and when that or the
\* image cannot be written the tool ends there.
hex2metabin(fill, version) ==
  /\ Buildable(app_hex.snippets)
  /\ builds < MaxBuilds /\ builds' = builds + 1
  /\ LET bin  == BinOf(app_hex.snippets, fill)
         info == AppInfo(bin, version)
     IN  /\ \/ /\ made' = [hex |-> app_hex, fill |-> fill, whole |-> TRUE]
               /\ files' = Written(Written(files, "meta", info), "app", bin)
            \/ /\ made' = [hex |-> app_hex, fill |-> fill, whole |-> FALSE]
               /\ files' \in {Written(files, "meta", CutShort(info)),
                              Written(files, "meta", info),
                              Written(Written(files, "meta", info), "app", CutShort(bin))}
  /\ UNCHANGED <<ldr_hex, app_hex, e2, shown>>

-----------------------------------------------------------------------------
\* Open of a binary or of a hex file.
OpenBin(name) ==
  /\ name \in DOMAIN files
  /\ Len(files[name]) <= E2_MAX_SIZE
  /\ e2' = files[name]
  /\ shown' = [how |-> "file", hex |-> app_hex, fill |-> 0]
  /\ UNCHANGED <<ldr_hex, app_hex, files, made, builds>>

\* Mutants: metadata as the PC reads them; the jump lost, or left where the
\* linker put it.
WithLittleMeta(image, mdat) ==
  [a \in DOMAIN image |->
     IF a - LdrSize \in 1 .. Len(mdat)
     THEN mdat[a - LdrSize + (IF (a - LdrSize) % 2 = 1 THEN 1 ELSE -1)] ELSE image[a]]
LosesJump(image) == [i \in 1 .. Len(image) - LdrMeta |-> image[i + LdrMeta]]
StaysAtZero(snippets) == snippets

Fits(snippets) == EndOf(snippets) <= E2_MAX_SIZE

OpenHex(fill) ==
  /\ app_hex.text <= E2_MAX_SIZE
  /\ \A s \in Range(app_hex.snippets) : disasm(s.dat)
  /\ Fits(app_hex.snippets)
  /\ e2' = Layout(app_hex.snippets, fill)
  /\ shown' = [how |-> "hex", hex |-> app_hex, fill |-> fill]
  /\ UNCHANGED <<ldr_hex, app_hex, files, made, builds>>

\* Patch: the first instruction goes in front of the application, and the
\* boot loader's areas are cut off.
Patched(image) ==
  [i \in 1 .. Len(image) - LdrMeta |-> IF i <= 3 THEN image[i] ELSE image[i + LdrMeta]]

slotPatch ==
  /\ LdrMeta < Len(e2)
  /\ e2' = Patched(e2)
  /\ shown' = [shown EXCEPT !.how = IF @ = "hex" THEN "patched" ELSE "file"]
  /\ UNCHANGED <<ldr_hex, app_hex, files, made, builds>>

-----------------------------------------------------------------------------
\* Merge: boot loader, metadata and application in one image.
LoaderTaken(hex) ==
  /\ hex.text <= E2_MAX_SIZE /\ hex.snippets # <<>>
  /\ Last(hex.snippets).addr + Len(Last(hex.snippets).dat) <= LdrMeta

AppTaken(hex) ==
  /\ hex.text <= E2_MAX_SIZE /\ Len(hex.snippets) >= 2
  /\ StartsWithJump(hex.snippets)
  /\ ByteBase * hex.snippets[1].dat[2] + hex.snippets[1].dat[3] >= LdrMeta + 3

\* The first instruction of the application is moved to where it is linked to.
Moved(snippets) == [snippets EXCEPT ![1].addr = @ + LdrMeta]

AppPart(image) == SubSeq(image, LdrMeta + 1, Len(image))

MetaMatches(mdat, image) ==
  SizeIn(mdat) = Len(AppPart(image)) /\ CrcIn(mdat) = Crc(AppPart(image))

WithMeta(image, mdat) ==
  [a \in DOMAIN image |-> IF a - LdrSize \in 1 .. Len(mdat) THEN mdat[a - LdrSize] ELSE image[a]]

\* The window's image is replaced before the metadata are looked at.
slotMerge(fill) ==
  LET allin1 == ldr_hex.snippets \o Moved(app_hex.snippets)
      image  == Layout(allin1, fill)
  IN  /\ LoaderTaken(ldr_hex) /\ AppTaken(app_hex)
      /\ "meta" \in DOMAIN files
      /\ Len(files["meta"]) = InfoLen /\ InfoLen <= MetaSize
      /\ \A s \in Range(allin1) : disasm(s.dat)
      /\ Fits(allin1)
      /\ shown' = [how |-> "merged", hex |-> app_hex, fill |-> fill]
      /\ \/ /\ MetaMatches(files["meta"], image)
            /\ e2' = WithMeta(image, files["meta"])
            /\ files' \in {files, Written(files, "allin1", e2')}
         \/ /\ ~MetaMatches(files["meta"], image)
            /\ e2' = image /\ UNCHANGED files
      /\ UNCHANGED <<ldr_hex, app_hex, made, builds>>

-----------------------------------------------------------------------------
NoFiles == [n \in {} |-> <<>>]

ImageInit ==
  /\ ldr_hex \in LdrHexes /\ app_hex \in AppHexes
  /\ files = NoFiles /\ e2 = <<>>
  /\ shown = [how |-> "file", hex |-> app_hex, fill |-> 0]
  /\ made = [hex |-> app_hex, fill |-> 0, whole |-> FALSE]
  /\ builds = 0

RomNext ==
  \/ \E n \in DOMAIN files : OpenBin(n)
  \/ \E f \in Fillers : OpenHex(f) \/ slotMerge(f)
  \/ slotPatch

ImageNext ==
  \/ Link
  \/ \E f \in Fillers, v \in AppVersions : hex2metabin(f, v)
  \/ RomNext

ImageSpec == ImageInit /\ [][ImageNext]_imageVars

-----------------------------------------------------------------------------
\* The boot loader is in the window's image byte for byte.
LoaderKept ==
  LET code == Layout(ldr_hex.snippets, 0)
  IN  \A s \in Range(ldr_hex.snippets) :
        \A a \in s.addr + 1 .. s.addr + Len(s.dat) : e2[a] = code[a]

\* Of every image that Merge saved, the boot loader finds the metadata where
\* it looks for them, and they are those of the application behind them; and a
\* boot loader that ends before the metadata is in the image byte for byte,
\* with every application that hex2metabin takes.
MergedIsGood ==
  /\ "allin1" \in DOMAIN files =>
       Describes(SubSeq(files["allin1"], LdrSize + 1, LdrMeta), AppPart(files["allin1"]))
  /\ ( /\ shown.how = "merged" /\ Buildable(shown.hex.snippets)
       /\ EndOf(ldr_hex.snippets) <= LdrSize ) => LoaderKept

\* Merge, Patch and hex2metabin make the same image of the same application,
\* so Merge finds the metadata of a finished build right.  (It lays snippets
\* over each other where hex2metabin puts them behind each other.)
ToolsAgree ==
  LET sameHex == made.whole /\ made.hex = shown.hex /\ made.fill = shown.fill
                   /\ Ordered(made.hex.snippets)
  IN  /\ sameHex /\ shown.how = "patched" => e2 = files["app"]
      /\ sameHex /\ shown.how = "merged"  => AppPart(e2) = files["app"]
=============================================================================
