------------------------- MODULE MCPageHeaderParser -------------------------
EXTENDS PageHeaderParser

\* Headers are written as page_header_parser_test.py and Parquet writers do: the objects of
\* ttypes.py over the compact protocol.
Thrift  == INSTANCE ThriftWriter
Compact == INSTANCE CompactProtocol

HeaderObject(k, n, size, extra) ==
  LET object(class, attrs) == [class |-> class, attrs |-> attrs]
      data == [num_values |-> n,
               encoding |-> IF k = "HYBRID" THEN Thrift!Encoding.RLE_DICTIONARY
                            ELSE Thrift!Encoding.PLAIN]
      levels == [definition_level_encoding |-> Thrift!Encoding.RLE,
                 repetition_level_encoding |-> Thrift!Encoding.RLE]
      sizes == [uncompressed_page_size |-> size + 1, compressed_page_size |-> size]
  IN  object("PageHeader", sizes @@ extra.crc @@
        IF k = "DICT"
        THEN [type |-> Thrift!PageType.DICTIONARY_PAGE,
              dictionary_page_header |-> object("DictionaryPageHeader", data)]
        ELSE [type |-> Thrift!PageType.DATA_PAGE,
              data_page_header |-> object("DataPageHeader", data @@ levels @@ extra.stats)])

NoExtra == [crc |-> <<>>, stats |-> <<>>]
Crc(n)  == [NoExtra EXCEPT !.crc = [crc |-> n]]
StatsWith(nulls) ==
  [NoExtra EXCEPT !.stats =
     [statistics |-> [class |-> "Statistics",
                      attrs |-> [max |-> <<200, 21>>, null_count |-> nulls,
                                 is_max_value_exact |-> FALSE]]]]

Parts(k, n, size, extra) ==
  Compact!Parts(Thrift!Write(Thrift!Structs, HeaderObject(k, n, size, extra)).out)
Bytes(parts) == Compact!Bytes(parts)

MkPage(k, n, size, extra, id) ==
  LET parts == Parts(k, n, size, extra)
  IN  [kind |-> k, n |-> n, parts |-> parts, header |-> Bytes(parts),
       payload |-> [i \in 1..size |-> 40 * id + i]]

-----------------------------------------------------------------------------
(* What the parser mistakes, and the passing runs leave out: see README.   *)

Size(p) == Len(p.header) + Len(p.payload)
Start(pages, i) == IF i = 1 THEN 0 ELSE Size(pages[1])   \* at most two pages

\* The last byte of a skipped varint is the third to last byte of a beat.
AtRefill(start, parts, i) ==
  (start + Len(Bytes(SubSeq(parts, 1, i)))) % NumBytes = NumBytes - 2
Misread(byte) == byte = 0 \/ byte % 16 \in {5, 8, 12}
SkippedVarint(part) == part.path \in {<<4>>, <<5, 3>>, <<5, 4>>} /\ part.t = "I32"
MisreadVarint(pages, i) ==
  \E j \in DOMAIN pages[i].parts :
    LET part == pages[i].parts[j]
    IN  /\ SkippedVarint(part) /\ AtRefill(Start(pages, i), pages[i].parts, j)
        /\ part.path = <<4>> \/ Misread(Last(part.bytes))

\* The bytes of an i64 are taken for tags of fields.
MisreadInt64(pages, i) ==
  \E j \in DOMAIN pages[i].parts :
    LET part == pages[i].parts[j]
    IN  part.t = "I64" /\ \E b \in 2..Len(part.bytes) : Misread(part.bytes[b])

\* What the buffer holds when the header is parsed, and a page that fits in it.
Residue(start, p) == 3 + ((NumBytes - ((start + Len(p.header) + 3) % NumBytes)) % NumBytes)
SplitPage(pages, i) ==
  LET size == Len(pages[i].payload)
  IN  size > NumBytes /\ size <= Residue(Start(pages, i), pages[i])

ShortTail(pages) == Len(pages[Len(pages)].payload) < 3

Handled(pages) ==
  /\ \A i \in DOMAIN pages : ~MisreadVarint(pages, i) /\ ~MisreadInt64(pages, i) /\ ~SplitPage(pages, i)
  /\ ~ShortTail(pages)

-----------------------------------------------------------------------------
SumValues(pages) ==
  LET f[i \in 0..Len(pages)] ==
        IF i = 0 THEN 0 ELSE f[i - 1] + (IF pages[i].kind = "DICT" THEN 0 ELSE pages[i].n)
  IN  f[Len(pages)]
MkChunk(pages) ==
  [num_values |-> SumValues(pages),
   pages |-> [i \in DOMAIN pages |-> [kind |-> pages[i].kind, n |-> pages[i].n,
                                      header |-> pages[i].header, payload |-> pages[i].payload]]]

Extras == {NoExtra, Crc(70), StatsWith(3)}

DictThenHybrid(S1, S2, n, E) ==
  {<<MkPage("DICT", 2, a, NoExtra, 1), MkPage("HYBRID", n, b, e, 2)>> :
     a \in S1, b \in S2, e \in E}
PlainPair(S1, E1, S2, E2) ==
  {<<MkPage("PLAIN", 1, a, e, 1), MkPage("PLAIN", 2, b, f, 2)>> :
     a \in S1, e \in E1, b \in S2, f \in E2}
OnePlain(S, E) == {<<MkPage("PLAIN", 5, a, e, 3)>> : a \in S, e \in E}

OneChunk(S) == {<<MkChunk(pages)>> : pages \in S}

\* Eight sizes of the first page bring every alignment of the second header.
MCAll == DictThenHybrid(1..8, {3, 9}, 70, {NoExtra, StatsWith(3)})
         \cup DictThenHybrid(1..8, {10, 17}, 3, {Crc(70), NoExtra})
         \cup PlainPair({1, 2, 7, 8, 9, 10, 16, 18}, Extras, {4}, {NoExtra})
         \cup PlainPair(3..10, {NoExtra}, {9, 10}, {NoExtra})

\* Two chunks back to back; the second parse starts from what the first left.
MCPairs == {<<MkChunk(p), MkChunk(q)>> :
              p \in {pages \in OnePlain({3, 5, 10, 16}, {NoExtra}) : Handled(pages)},
              q \in {pages \in OnePlain({4, 13}, {Crc(3)}) : Handled(pages)}}

HandledWorkloads == OneChunk({pages \in MCAll : Handled(pages)}) \cup MCPairs

\* null_count = 0 as an i64 (compact type 6).
Int64Workloads  == OneChunk(OnePlain({4}, {StatsWith(0)}))

Stream == INSTANCE PageStream WITH transfers <-
            IF payload = <<>> THEN transfers ELSE Extend(transfers, Head(payload))

\* The parser implements PageStream: page_header_parser.sv announces every page of a chunk
\* with its kind and number of values, and forwards exactly its payload as one transfer.
StreamSpec == Stream!Spec
=============================================================================
