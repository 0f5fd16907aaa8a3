------------------------------ MODULE RvImage ------------------------------
(* Program images on their way to a simulator: the ELF loader and the hex   *)
(* fixtures of rv_image.py and build_corpus.py, the memory window and the   *)
(* BootROM the testbench preloads (run_difftest.py, rom/build_rom.py).      *)
(*                                                                          *)
(* Bytes are numbers; a file is a record of what its parser finds in it.    *)
(* Addresses stay below 2^24.                                               *)
EXTENDS Integers, SequencesExt

NoAddr == -1
Segment(addr, data) == [addr |-> addr, data |-> data]
Span(s) == s.addr..(s.addr + Len(s.data) - 1)
Holds(s, a) == a \in Span(s)
ByteAt(s, a) == s.data[a - s.addr + 1]

\* what memory holds once the segments are written in order
Memory(segs) ==
  [a \in UNION {Span(s) : s \in ToSet(segs)} |->
     ByteAt(segs[SelectLastInSeq(segs, LAMBDA s : Holds(s, a))], a)]
ByteOf(mem, a) == IF a \in DOMAIN mem THEN mem[a] ELSE 0

LittleEndian(v, n) == [k \in 1..n |-> IF k > 3 THEN 0 ELSE (v \div 256^(k - 1)) % 256]

-----------------------------------------------------------------------------
(* rv_image.py                                                              *)

\* an ELF: its kind, entry, program headers [load, addr, data] and symbols
ElfSegments(f) ==
  LET load == SelectSeq(f.phdrs, LAMBDA p : p.load)
  IN  [i \in DOMAIN load |-> Segment(load[i].addr, load[i].data)]

\* the first symbol of a name counts
ElfSymbol(f, name) ==
  LET i == SelectInSeq(f.symbols, LAMBDA s : s.name = name)
  IN  IF i = 0 THEN NoAddr ELSE f.symbols[i].value

NoImage == [ok |-> FALSE, entry |-> NoAddr, tohost |-> NoAddr, segments |-> <<>>]

LoadElf(f) ==
  IF f.kind # "elf" \/ ElfSymbol(f, "tohost") = NoAddr THEN NoImage
  ELSE [ok |-> TRUE, entry |-> f.entry, tohost |-> ElfSymbol(f, "tohost"),
        segments |-> ElfSegments(f)]

\* build_corpus.py elf_to_hex: 16-byte lines of 4-byte words; an incomplete
\* word is dropped and an all-zero line is left out
HexLine(s, offset) ==
  LET rest == Len(s.data) - offset
      whole == (IF rest < 16 THEN rest ELSE 16) \div 4
  IN  [addr |-> s.addr + offset,
       words |-> [w \in 1..whole |-> SubSeq(s.data, offset + 4*w - 3, offset + 4*w)]]
HexLines(s) ==
  SelectSeq([i \in 1..((Len(s.data) + 15) \div 16) |-> HexLine(s, 16 * (i - 1))],
            LAMBDA l : \E w \in ToSet(l.words) : w # <<0, 0, 0, 0>>)

ElfToHex(img) ==
  [kind |-> "hex", entry |-> img.entry, tohost |-> img.tohost,
   lines |-> FlattenSeq([i \in DOMAIN img.segments |-> HexLines(img.segments[i])])]

\* load_hex_image: the lines of one address share a segment, and the
\* segments are written in the order of their addresses
LoadHex(h) ==
  LET at == {l.addr : l \in ToSet(h.lines)}
      lines(a) == SelectSeq(h.lines, LAMBDA l : l.addr = a)
      merged(a) == LET m == Memory([i \in DOMAIN lines(a) |->
                                      Segment(a, FlattenSeq(lines(a)[i].words))])
                   IN  Segment(a, [k \in 1..Cardinality(DOMAIN m) |-> m[a + k - 1]])
      order == SetToSortSeq(at, <)
  IN  IF h.entry = NoAddr \/ h.tohost = NoAddr THEN NoImage
      ELSE [ok |-> TRUE, entry |-> h.entry, tohost |-> h.tohost,
            segments |-> [i \in DOMAIN order |-> merged(order[i])]]

LoadImage(f) == IF f.kind = "hex" THEN LoadHex(f) ELSE LoadElf(f)

-----------------------------------------------------------------------------
(* _ImageWindow and the two images written from it                          *)

Window(base, size) == [ok |-> TRUE, base |-> base, size |-> size, placed |-> <<>>]

Overlaps(s, t) == s.addr < t.addr + Len(t.data) /\ t.addr < s.addr + Len(s.data)

\* Mutant: a blob may cover what is already there
Bug_Place(w, s, exclusive) ==
  IF ~w.ok \/ s.addr < w.base \/ s.addr + Len(s.data) > w.base + w.size
  THEN [w EXCEPT !.ok = FALSE] ELSE [w EXCEPT !.placed = Append(@, s)]

Place(w, s, exclusive) ==
  IF \/ ~w.ok
     \/ s.addr < w.base \/ s.addr + Len(s.data) > w.base + w.size
     \/ exclusive /\ \E t \in ToSet(w.placed) : Overlaps(s, t)
  THEN [w EXCEPT !.ok = FALSE]
  ELSE [w EXCEPT !.placed = Append(@, s)]

\* the touched words of the window, their other bytes zero
Render(w, bytes) ==
  LET mem == Memory(w.placed)
  IN  [i \in {(a - w.base) \div bytes : a \in DOMAIN mem} |->
         [k \in 1..bytes |-> ByteOf(mem, w.base + bytes * i + k - 1)]]

WindowImage(img, base, size, blobs) ==
  LET segs == FoldLeft(LAMBDA w, s : Place(w, s, FALSE), Window(base, size), img.segments)
      all == FoldLeft(LAMBDA w, s : Place(w, s, TRUE), segs, blobs)
  IN  [ok |-> all.ok, words |-> IF all.ok THEN Render(all, 8) ELSE <<>>]

\* rom/build_rom.py: the non-zero words; a stub without its step count is refused
RomStep == 7
RomEntry == 8
Words(data) == [i \in 0..(Len(data) \div 4 - 1) |-> SubSeq(data, 4*i + 1, 4*i + 4)]
NonZero(words) ==
  [i \in {j \in DOMAIN words : words[j] # <<0, 0, 0, 0>>} |-> words[i]]
BuildRom(data, bytes) ==
  LET image == [k \in 1..bytes |-> IF k <= Len(data) THEN data[k] ELSE 0]
      words == Words(image)
  IN  [kind |-> IF Len(data) > bytes \/ words[RomStep] = <<0, 0, 0, 0>> THEN "none" ELSE "rom",
       words |-> NonZero(words)]

\* write_rom_image: a built hex passes through, an ELF is transcribed with its
\* own entry over the entry word
RomImage(f, base, bytes) ==
  IF f.kind = "rom" THEN [ok |-> DOMAIN f.words # {}, words |-> f.words]
  ELSE IF f.kind # "elf" THEN [ok |-> FALSE, words |-> <<>>]
  ELSE LET w == FoldLeft(LAMBDA x, s : Place(x, s, FALSE), Window(base, bytes), ElfSegments(f))
           entry == LittleEndian(f.entry, 8)
           words == [i \in DOMAIN Render(w, 4) \cup {RomEntry, RomEntry + 1} |->
                       IF i = RomEntry THEN SubSeq(entry, 1, 4)
                       ELSE IF i = RomEntry + 1 THEN SubSeq(entry, 5, 8)
                       ELSE Render(w, 4)[i]]
       IN  [ok |-> w.ok, words |-> IF w.ok THEN NonZero(words) ELSE <<>>]

\* $readmemh into a zero-filled array of the testbench
Preloaded(words, base, bytes, width) ==
  [a \in base..(base + bytes - 1) |->
     LET i == (a - base) \div width
     IN  IF i \in DOMAIN words THEN words[i][((a - base) % width) + 1] ELSE 0]
=============================================================================
