------------------------------- MODULE Video -------------------------------
(* The cartridge's video library (cartridge_baseline/src/video_api.c), which  *)
(* packs what it is asked into words of the video memory and writes there     *)
(* through the firmware (system_calls.c), and the controller that draws from  *)
(* it on another thread (riscv-sim/src/VideoController.cpp). The two lay the  *)
(* memory out by themselves.                                                  *)
EXTENDS Integers, Sequences

CONSTANTS
    Positions,   \* <<x, y>>: where the program puts things on the screen,
    Indexes,     \* which of them, whether it exists or not,
    Extents,     \* how wide and high,
    Texts,       \* and the lines it prints
    LineWidth,   \* characters in a line of text, 64
    MaxVideoStores    \* bound on the stores since the last reset

ASSUME VideoAssumption ==
    /\ LineWidth \in Nat \ {0} /\ MaxVideoStores \in Nat
    /\ Positions \subseteq Int \X Int /\ Indexes \subseteq Nat /\ Texts \subseteq Seq(Nat)

VARIABLES
    words,       \* the controls, by address: the bits that are set in each
    asked,       \* history: the call each of them was last written by
    block,       \* history: the last copy into the video memory
    textLines,       \* the text, by line
    printed,     \* history: what was printed there since the reset
    drawing,     \* the control the controller is at, and the word it found there
    drawn,       \* history: what it has drawn last, for which call
    changes      \* the stores since the reset

videoVars == <<words, asked, block, textLines, printed, drawing, drawn, changes>>

Nothing == <<>>
ScreenWidth == 512
ScreenHeight == 288
LineCount == 36

-----------------------------------------------------------------------------
(* The constructor of the controller: the areas one after another. *)
Area(kind, size, count) == [kind |-> kind, size |-> size, count |-> count]
Areas == << Area("backgroundImage", ScreenWidth * ScreenHeight, 5), Area("largeImage", 64 * 64, 64),
            Area("smallImage", 16 * 16, 128), Area("backgroundPalette", 4 * 256, 4),
            Area("spritePalette", 4 * 256, 4), Area("font", 8, 256),
            Area("text", 64, LineCount), Area("background", 4, 5), Area("large", 4, 64),
            Area("small", 4, 128), Area("mode", 4, 1) >>
Start == LET start[i \in 1..Len(Areas)] ==
                 IF i = 1 THEN 0 ELSE start[i-1] + Areas[i-1].size * Areas[i-1].count
         IN start
NumberOf(kind) == CHOOSE i \in DOMAIN Areas : Areas[i].kind = kind
PlaceOf(kind, idx) == Start[NumberOf(kind)] + idx * Areas[NumberOf(kind)].size
Exists(kind, idx) == idx < Areas[NumberOf(kind)].count

(* The handles the library writes to, and the size it takes a thing to have. *)
HandleBase == [backgroundImage |-> 0, largeImage |-> \hB4000, smallImage |-> \hF4000,
           backgroundPalette |-> \hFC000, spritePalette |-> \hFD000, text |-> \hFE800,
           background |-> \hFF100, large |-> \hFF114, small |-> \hFF214, mode |-> \hFF414]
MemSize == [backgroundImage |-> \h24000, largeImage |-> \h1000, smallImage |-> \h100,
            backgroundPalette |-> \h400, spritePalette |-> \h400, text |-> \h40]
Handle(kind, idx) ==
    HandleBase[kind] + idx * (IF kind \in DOMAIN MemSize THEN MemSize[kind] ELSE 4)

-----------------------------------------------------------------------------
(* A word as the set of its bits; the fields of a control do not overlap, so  *)
(* adding them up is their union. Masks take a value modulo 2^width.          *)
Bits(n, at, width) == {at + k : k \in {k \in 0..width-1 : (n \div 2^k) % 2 = 1}}
FieldOf(word, at, width) ==
    LET sum[k \in 0..width] == IF k = 0 THEN 0
                               ELSE sum[k-1] + (IF at + k - 1 \in word THEN 2^(k-1) ELSE 0)
    IN sum[width]

(* set...Control: what is added to the coordinates, and how the sizes go in. *)
Margin == [large |-> <<64, 64>>, small |-> <<16, 16>>, background |-> <<ScreenWidth, ScreenHeight>>]
Smallest == [large |-> 33, small |-> 1]
YBits == [large |-> 9, small |-> 9, background |-> 10]
SizeBits == [large |-> 5, small |-> 4]
PackedLow(kind, x, y, w, h) ==      \* mutant: the y of a sprite starts a bit too low
    Bits((x + Margin[kind][1]) % 1024, 2, 10) \cup Bits((y + Margin[kind][2]) % 1024, 11, YBits[kind])
    \cup (IF kind = "background" THEN {}
          ELSE Bits(w - Smallest[kind], 21, SizeBits[kind])
               \cup Bits(h - Smallest[kind], 21 + SizeBits[kind], SizeBits[kind]))
Packed(kind, x, y, w, h) ==
    Bits((x + Margin[kind][1]) % 1024, 2, 10) \cup Bits((y + Margin[kind][2]) % 1024, 12, YBits[kind])
    \cup (IF kind = "background" THEN {}
          ELSE Bits(w - Smallest[kind], 21, SizeBits[kind])
               \cup Bits(h - Smallest[kind], 21 + SizeBits[kind], SizeBits[kind]))

(* RefreshGraphicsMode: whether a control has a part on the screen, and where *)
(* it is drawn; every test and every value is a read of its own.              *)
XOffset(word) == FieldOf(word, 2, 10)
YOffset(kind, word) == FieldOf(word, 12, YBits[kind])
Extent(kind, word, at) == FieldOf(word, at, SizeBits[kind]) + Smallest[kind]
PartOnScreen(kind, word) ==
    /\ XOffset(word) # 0 /\ YOffset(kind, word) # 0
    /\ XOffset(word) < ScreenWidth + Margin[kind][1] /\ YOffset(kind, word) < ScreenHeight + Margin[kind][2]
X(kind, word) == XOffset(word) - Margin[kind][1]
Y(kind, word) == YOffset(kind, word) - Margin[kind][2]
W(kind, word) == IF kind = "background" THEN ScreenWidth ELSE Extent(kind, word, 21)
H(kind, word) == IF kind = "background" THEN ScreenHeight ELSE Extent(kind, word, 21 + SizeBits[kind])

-----------------------------------------------------------------------------
Kinds == {"background", "large", "small"}
Fits(kind, w, h) ==     \* a background has one size
    IF kind = "background" THEN w = h ELSE {w, h} \subseteq Smallest[kind]..Margin[kind][1]
With(f, at, value) == [x \in DOMAIN f \cup {at} |-> IF x = at THEN value ELSE f[x]]
Stored == changes < MaxVideoStores /\ changes' = changes + 1

(* The calls that place something, of any of the guest's threads: one store   *)
SetControl(kind, idx, x, y, w, h) ==
    /\ Stored
    /\ words' = With(words, Handle(kind, idx), Packed(kind, x, y, w, h))
    /\ asked' = With(asked, Handle(kind, idx), [kind |-> kind, idx |-> idx, box |-> <<x, y, w, h>>])
    /\ UNCHANGED <<block, textLines, printed, drawing, drawn>>

SetDisplayMode(mode) ==
    /\ Stored
    /\ words' = With(words, Handle("mode", 0), Bits(mode % 2, 0, 1))
    /\ asked' = With(asked, Handle("mode", 0), [kind |-> "mode", idx |-> 0])
    /\ UNCHANGED <<block, textLines, printed, drawing, drawn>>

(* writeIndexedTarget refuses what is longer than the thing it is for.        *)
WriteIndexed(kind, idx, len) ==
    /\ Stored /\ len <= MemSize[kind]
    /\ block' = [kind |-> kind, idx |-> idx, first |-> Handle(kind, idx), len |-> len]
    /\ UNCHANGED <<words, asked, textLines, printed, drawing, drawn>>

(* linePrintf: a buffer of a line with the text cut to leave room for its     *)
(* terminator, of which as much is copied as the whole text would be long.    *)
Buffer(text, c) == IF c < LineWidth THEN text[c] ELSE 0
Copied(line, text) ==
    [c \in 1..LineWidth |-> IF c <= Len(text) THEN Buffer(text, c) ELSE line[c]]
LinePrintf(l, text) ==
    /\ Stored
    /\ textLines' = [textLines EXCEPT ![l] = Copied(@, text)]
    /\ printed' = [printed EXCEPT ![l] = Append(@, text)]
    /\ UNCHANGED <<words, asked, block, drawing, drawn>>

(* The controller looks at one control, and draws it from what it finds there *)
(* a moment later: its reads are of either word, each for itself.             *)
LookAt(kind, idx) ==
    /\ drawing = Nothing /\ Exists(kind, idx)
    /\ 0 \in words[PlaceOf("mode", 0)]      \* else it shows the text
    /\ PlaceOf(kind, idx) \in DOMAIN words
    /\ PartOnScreen(kind, words[PlaceOf(kind, idx)])
    /\ drawing' = [kind |-> kind, place |-> PlaceOf(kind, idx), word |-> words[PlaceOf(kind, idx)]]
    /\ UNCHANGED <<words, asked, block, textLines, printed, drawn, changes>>

Draw ==
    /\ drawing # Nothing
    /\ LET kind == drawing.kind
           seen == {drawing.word, words[drawing.place]}
       IN \E wx, wy, ww, wh \in seen :
             drawn' = [kind |-> kind, by |-> asked[drawing.place], calm |-> seen = {drawing.word},
                       box |-> <<X(kind, wx), Y(kind, wy), W(kind, ww), H(kind, wh)>>]
    /\ drawing' = Nothing
    /\ UNCHANGED <<words, asked, block, textLines, printed, changes>>

(* Reset clears the whole memory; the window's thread draws before or after.  *)
ModeOnly(word) == [place \in {PlaceOf("mode", 0)} |-> word]
Blank == [l \in 0..1 |-> [c \in 1..LineWidth |-> 0]]
ResetVideo ==
    /\ drawing = Nothing
    /\ words' = ModeOnly({}) /\ asked' = <<>> /\ textLines' = Blank /\ printed' = [l \in 0..1 |-> <<>>]
    /\ block' = Nothing /\ drawn' = Nothing /\ changes' = 0
    /\ UNCHANGED drawing

VideoInit ==
    /\ words \in {ModeOnly({}), ModeOnly({0})} /\ asked = <<>>
    /\ textLines = Blank /\ printed = [l \in 0..1 |-> <<>>]
    /\ block = Nothing /\ drawing = Nothing /\ drawn = Nothing /\ changes = 0

VideoNext ==
    \/ \E kind \in Kinds, idx \in Indexes, p \in Positions, w, h \in Extents :
          /\ Fits(kind, w, h)
          /\ SetControl(kind, idx, p[1], p[2], w, h)
    \/ \E kind \in DOMAIN MemSize, idx \in Indexes : WriteIndexed(kind, idx, MemSize[kind])
    \/ \E l \in 0..1, text \in Texts : LinePrintf(l, text)
    \/ \E kind \in Kinds, idx \in Indexes : LookAt(kind, idx)
    \/ (\E mode \in 0..1 : SetDisplayMode(mode)) \/ Draw \/ ResetVideo
VideoSpec == VideoInit /\ [][VideoNext]_videoVars

-----------------------------------------------------------------------------
(* What is drawn while nobody writes its control is where the call asked, and *)
(* as large, for coordinates the fields have room for; what is asked on the   *)
(* screen is not left out.                                                    *)
InRange(kind, x, y) ==
    /\ x + Margin[kind][1] \in 0..1023
    /\ y + Margin[kind][2] \in 0..2^YBits[kind]-1
BoxOf(kind, box) == IF kind = "background" THEN <<box[1], box[2], ScreenWidth, ScreenHeight>> ELSE box
Visible(box) == /\ box[1] < ScreenWidth /\ box[1] + box[3] > 0
                /\ box[2] < ScreenHeight /\ box[2] + box[4] > 0
DrawnWhereAsked ==
    /\ drawn # Nothing /\ drawn.calm /\ drawn.by.kind = drawn.kind
       /\ InRange(drawn.by.kind, drawn.by.box[1], drawn.by.box[2])
          => drawn.box = BoxOf(drawn.by.kind, drawn.by.box)
    /\ \A kind \in Kinds, idx \in Indexes :
          Exists(kind, idx) /\ PlaceOf(kind, idx) \in DOMAIN asked =>
              LET call == asked[PlaceOf(kind, idx)] IN
              call.kind = kind /\ Visible(BoxOf(kind, call.box))
                  => PartOnScreen(kind, words[PlaceOf(kind, idx)])

(* Whatever the library writes for a thing that exists goes to that thing and *)
(* to no other: the two layouts agree to the byte.                            *)
InItsOwnPlace ==
    /\ \A place \in DOMAIN asked : LET call == asked[place] IN
          Exists(call.kind, call.idx) => place = PlaceOf(call.kind, call.idx)
    /\ block # Nothing /\ Exists(block.kind, block.idx) =>
          /\ block.first = PlaceOf(block.kind, block.idx)
          /\ block.first + block.len <= PlaceOf(block.kind, block.idx + 1)

(* A line shows the text last printed on it, and after that only what is left *)
(* of longer texts: the library does not clear it.                            *)
LineShowsText ==
    \A l \in 0..1 : printed[l] # <<>> =>
        LET text == printed[l][Len(printed[l])] IN
        \A c \in 1..LineWidth-1 :
            IF c <= Len(text) THEN textLines[l][c] = text[c]
            ELSE (\A i \in DOMAIN printed[l] : Len(printed[l][i]) < c) => textLines[l][c] = 0

(* The program sees on the screen what it asked the library for.              *)
PictureInv == DrawnWhereAsked /\ InItsOwnPlace /\ LineShowsText
=============================================================================
