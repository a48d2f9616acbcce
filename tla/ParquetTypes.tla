---------------------------- MODULE ParquetTypes ----------------------------
(***************************************************************************)
(* The structs of the Parquet format as gen-py/parquet/ttypes.py has them: *)
(* a class is the sequence of its fields in the order write() emits them.  *)
(* A field is its id on the wire, its type, its attribute, and whether     *)
(* validate() refuses an object that has it unset.                         *)
(***************************************************************************)
EXTENDS Naturals, Sequences

Scalar(t)  == [t |-> t, of |-> <<>>]
BOOL   == Scalar("BOOL")
BYTE   == Scalar("BYTE")
I16    == Scalar("I16")
I32    == Scalar("I32")
I64    == Scalar("I64")
DOUBLE == Scalar("DOUBLE")
BYTES  == Scalar("STRING")
Struct(class) == [t |-> "STRUCT", of |-> <<class>>]
List(type)    == [t |-> "LIST", of |-> <<type>>]

Opt(id, type, name) == [id |-> id, type |-> type, name |-> name, required |-> FALSE]
Req(id, type, name) == [id |-> id, type |-> type, name |-> name, required |-> TRUE]

\* The enumerations a page header is built from.
PageType == [DATA_PAGE |-> 0, INDEX_PAGE |-> 1, DICTIONARY_PAGE |-> 2, DATA_PAGE_V2 |-> 3]
Encoding == [PLAIN |-> 0, PLAIN_DICTIONARY |-> 2, RLE |-> 3, BIT_PACKED |-> 4,
             DELTA_BINARY_PACKED |-> 5, DELTA_LENGTH_BYTE_ARRAY |-> 6, DELTA_BYTE_ARRAY |-> 7,
             RLE_DICTIONARY |-> 8, BYTE_STREAM_SPLIT |-> 9]

-----------------------------------------------------------------------------
(* Statistics of a page or a column chunk.                                 *)

SizeStatistics ==
  <<Opt(1, I64, "unencoded_byte_array_data_bytes"),
    Opt(2, List(I64), "repetition_level_histogram"),
    Opt(3, List(I64), "definition_level_histogram")>>
BoundingBox ==
  <<Req(1, DOUBLE, "xmin"), Req(2, DOUBLE, "xmax"), Req(3, DOUBLE, "ymin"),
    Req(4, DOUBLE, "ymax"), Opt(5, DOUBLE, "zmin"), Opt(6, DOUBLE, "zmax"),
    Opt(7, DOUBLE, "mmin"), Opt(8, DOUBLE, "mmax")>>
GeospatialStatistics ==
  <<Opt(1, Struct("BoundingBox"), "bbox"), Opt(2, List(I32), "geospatial_types")>>
Statistics ==
  <<Opt(1, BYTES, "max"), Opt(2, BYTES, "min"), Opt(3, I64, "null_count"),
    Opt(4, I64, "distinct_count"), Opt(5, BYTES, "max_value"), Opt(6, BYTES, "min_value"),
    Opt(7, BOOL, "is_max_value_exact"), Opt(8, BOOL, "is_min_value_exact")>>
-----------------------------------------------------------------------------
(* Logical types.  Most are the field of LogicalType and nothing else.     *)

StringType == <<>>
UUIDType == <<>>
MapType == <<>>
ListType == <<>>
EnumType == <<>>
DateType == <<>>
Float16Type == <<>>
NullType == <<>>
DecimalType ==
  <<Req(1, I32, "scale"), Req(2, I32, "precision")>>
MilliSeconds == <<>>
MicroSeconds == <<>>
NanoSeconds == <<>>
TimeUnit ==
  <<Opt(1, Struct("MilliSeconds"), "MILLIS"), Opt(2, Struct("MicroSeconds"), "MICROS"),
    Opt(3, Struct("NanoSeconds"), "NANOS")>>
TimestampType ==
  <<Req(1, BOOL, "isAdjustedToUTC"), Req(2, Struct("TimeUnit"), "unit")>>
TimeType ==
  <<Req(1, BOOL, "isAdjustedToUTC"), Req(2, Struct("TimeUnit"), "unit")>>
IntType ==
  <<Req(1, BYTE, "bitWidth"), Req(2, BOOL, "isSigned")>>
JsonType == <<>>
BsonType == <<>>
VariantType ==
  <<Opt(1, BYTE, "specification_version")>>
GeometryType ==
  <<Opt(1, BYTES, "crs")>>
GeographyType ==
  <<Opt(1, BYTES, "crs"), Opt(2, I32, "algorithm")>>
LogicalType ==
  <<Opt(1, Struct("StringType"), "STRING"), Opt(2, Struct("MapType"), "MAP"),
    Opt(3, Struct("ListType"), "LIST"), Opt(4, Struct("EnumType"), "ENUM"),
    Opt(5, Struct("DecimalType"), "DECIMAL"), Opt(6, Struct("DateType"), "DATE"),
    Opt(7, Struct("TimeType"), "TIME"), Opt(8, Struct("TimestampType"), "TIMESTAMP"),
    Opt(10, Struct("IntType"), "INTEGER"), Opt(11, Struct("NullType"), "UNKNOWN"),
    Opt(12, Struct("JsonType"), "JSON"), Opt(13, Struct("BsonType"), "BSON"),
    Opt(14, Struct("UUIDType"), "UUID"), Opt(15, Struct("Float16Type"), "FLOAT16"),
    Opt(16, Struct("VariantType"), "VARIANT"), Opt(17, Struct("GeometryType"), "GEOMETRY"),
    Opt(18, Struct("GeographyType"), "GEOGRAPHY")>>
-----------------------------------------------------------------------------
(* A node of the schema.                                                   *)

SchemaElement ==
  <<Opt(1, I32, "type"), Opt(2, I32, "type_length"), Opt(3, I32, "repetition_type"),
    Req(4, BYTES, "name"), Opt(5, I32, "num_children"), Opt(6, I32, "converted_type"),
    Opt(7, I32, "scale"), Opt(8, I32, "precision"), Opt(9, I32, "field_id"),
    Opt(10, Struct("LogicalType"), "logicalType")>>
-----------------------------------------------------------------------------
(* Page headers: PageHeader holds one of the four others.                  *)

DataPageHeader ==
  <<Req(1, I32, "num_values"), Req(2, I32, "encoding"),
    Req(3, I32, "definition_level_encoding"), Req(4, I32, "repetition_level_encoding"),
    Opt(5, Struct("Statistics"), "statistics")>>
IndexPageHeader == <<>>
DictionaryPageHeader ==
  <<Req(1, I32, "num_values"), Req(2, I32, "encoding"), Opt(3, BOOL, "is_sorted")>>
DataPageHeaderV2 ==
  <<Req(1, I32, "num_values"), Req(2, I32, "num_nulls"), Req(3, I32, "num_rows"),
    Req(4, I32, "encoding"), Req(5, I32, "definition_levels_byte_length"),
    Req(6, I32, "repetition_levels_byte_length"), Opt(7, BOOL, "is_compressed"),
    Opt(8, Struct("Statistics"), "statistics")>>
-----------------------------------------------------------------------------
(* Bloom filters.                                                          *)

SplitBlockAlgorithm == <<>>
BloomFilterAlgorithm ==
  <<Opt(1, Struct("SplitBlockAlgorithm"), "BLOCK")>>
XxHash == <<>>
BloomFilterHash ==
  <<Opt(1, Struct("XxHash"), "XXHASH")>>
Uncompressed == <<>>
BloomFilterCompression ==
  <<Opt(1, Struct("Uncompressed"), "UNCOMPRESSED")>>
BloomFilterHeader ==
  <<Req(1, I32, "numBytes"), Req(2, Struct("BloomFilterAlgorithm"), "algorithm"),
    Req(3, Struct("BloomFilterHash"), "hash"),
    Req(4, Struct("BloomFilterCompression"), "compression")>>
PageHeader ==
  <<Req(1, I32, "type"), Req(2, I32, "uncompressed_page_size"),
    Req(3, I32, "compressed_page_size"), Opt(4, I32, "crc"),
    Opt(5, Struct("DataPageHeader"), "data_page_header"),
    Opt(6, Struct("IndexPageHeader"), "index_page_header"),
    Opt(7, Struct("DictionaryPageHeader"), "dictionary_page_header"),
    Opt(8, Struct("DataPageHeaderV2"), "data_page_header_v2")>>
-----------------------------------------------------------------------------
(* Column chunks and row groups.                                           *)

KeyValue ==
  <<Req(1, BYTES, "key"), Opt(2, BYTES, "value")>>
SortingColumn ==
  <<Req(1, I32, "column_idx"), Req(2, BOOL, "descending"), Req(3, BOOL, "nulls_first")>>
PageEncodingStats ==
  <<Req(1, I32, "page_type"), Req(2, I32, "encoding"), Req(3, I32, "count")>>
ColumnMetaData ==
  <<Req(1, I32, "type"), Req(2, List(I32), "encodings"),
    Req(3, List(BYTES), "path_in_schema"), Req(4, I32, "codec"), Req(5, I64, "num_values"),
    Req(6, I64, "total_uncompressed_size"), Req(7, I64, "total_compressed_size"),
    Opt(8, List(Struct("KeyValue")), "key_value_metadata"), Req(9, I64, "data_page_offset"),
    Opt(10, I64, "index_page_offset"), Opt(11, I64, "dictionary_page_offset"),
    Opt(12, Struct("Statistics"), "statistics"),
    Opt(13, List(Struct("PageEncodingStats")), "encoding_stats"),
    Opt(14, I64, "bloom_filter_offset"), Opt(15, I32, "bloom_filter_length"),
    Opt(16, Struct("SizeStatistics"), "size_statistics"),
    Opt(17, Struct("GeospatialStatistics"), "geospatial_statistics")>>
EncryptionWithFooterKey == <<>>
EncryptionWithColumnKey ==
  <<Req(1, List(BYTES), "path_in_schema"), Opt(2, BYTES, "key_metadata")>>
ColumnCryptoMetaData ==
  <<Opt(1, Struct("EncryptionWithFooterKey"), "ENCRYPTION_WITH_FOOTER_KEY"),
    Opt(2, Struct("EncryptionWithColumnKey"), "ENCRYPTION_WITH_COLUMN_KEY")>>
ColumnChunk ==
  <<Opt(1, BYTES, "file_path"), Req(2, I64, "file_offset"),
    Opt(3, Struct("ColumnMetaData"), "meta_data"), Opt(4, I64, "offset_index_offset"),
    Opt(5, I32, "offset_index_length"), Opt(6, I64, "column_index_offset"),
    Opt(7, I32, "column_index_length"),
    Opt(8, Struct("ColumnCryptoMetaData"), "crypto_metadata"),
    Opt(9, BYTES, "encrypted_column_metadata")>>
RowGroup ==
  <<Req(1, List(Struct("ColumnChunk")), "columns"), Req(2, I64, "total_byte_size"),
    Req(3, I64, "num_rows"), Opt(4, List(Struct("SortingColumn")), "sorting_columns"),
    Opt(5, I64, "file_offset"), Opt(6, I64, "total_compressed_size"),
    Opt(7, I16, "ordinal")>>
-----------------------------------------------------------------------------
(* Page indexes.                                                           *)

TypeDefinedOrder == <<>>
ColumnOrder ==
  <<Opt(1, Struct("TypeDefinedOrder"), "TYPE_ORDER")>>
PageLocation ==
  <<Req(1, I64, "offset"), Req(2, I32, "compressed_page_size"),
    Req(3, I64, "first_row_index")>>
OffsetIndex ==
  <<Req(1, List(Struct("PageLocation")), "page_locations"),
    Opt(2, List(I64), "unencoded_byte_array_data_bytes")>>
ColumnIndex ==
  <<Req(1, List(BOOL), "null_pages"), Req(2, List(BYTES), "min_values"),
    Req(3, List(BYTES), "max_values"), Req(4, I32, "boundary_order"),
    Opt(5, List(I64), "null_counts"), Opt(6, List(I64), "repetition_level_histograms"),
    Opt(7, List(I64), "definition_level_histograms")>>
-----------------------------------------------------------------------------
(* Encryption, and the footer of a file.                                   *)

AesGcmV1 ==
  <<Opt(1, BYTES, "aad_prefix"), Opt(2, BYTES, "aad_file_unique"),
    Opt(3, BOOL, "supply_aad_prefix")>>
AesGcmCtrV1 ==
  <<Opt(1, BYTES, "aad_prefix"), Opt(2, BYTES, "aad_file_unique"),
    Opt(3, BOOL, "supply_aad_prefix")>>
EncryptionAlgorithm ==
  <<Opt(1, Struct("AesGcmV1"), "AES_GCM_V1"),
    Opt(2, Struct("AesGcmCtrV1"), "AES_GCM_CTR_V1")>>
FileMetaData ==
  <<Req(1, I32, "version"), Req(2, List(Struct("SchemaElement")), "schema"),
    Req(3, I64, "num_rows"), Req(4, List(Struct("RowGroup")), "row_groups"),
    Opt(5, List(Struct("KeyValue")), "key_value_metadata"), Opt(6, BYTES, "created_by"),
    Opt(7, List(Struct("ColumnOrder")), "column_orders"),
    Opt(8, Struct("EncryptionAlgorithm"), "encryption_algorithm"),
    Opt(9, BYTES, "footer_signing_key_metadata")>>
FileCryptoMetaData ==
  <<Req(1, Struct("EncryptionAlgorithm"), "encryption_algorithm"),
    Opt(2, BYTES, "key_metadata")>>

-----------------------------------------------------------------------------
\* all_structs.
Structs ==
  [SizeStatistics |-> SizeStatistics, BoundingBox |-> BoundingBox,
   GeospatialStatistics |-> GeospatialStatistics, Statistics |-> Statistics,
   StringType |-> StringType, UUIDType |-> UUIDType, MapType |-> MapType,
   ListType |-> ListType, EnumType |-> EnumType, DateType |-> DateType,
   Float16Type |-> Float16Type, NullType |-> NullType, DecimalType |-> DecimalType,
   MilliSeconds |-> MilliSeconds, MicroSeconds |-> MicroSeconds,
   NanoSeconds |-> NanoSeconds, TimeUnit |-> TimeUnit, TimestampType |-> TimestampType,
   TimeType |-> TimeType, IntType |-> IntType, JsonType |-> JsonType, BsonType |-> BsonType,
   VariantType |-> VariantType, GeometryType |-> GeometryType,
   GeographyType |-> GeographyType, LogicalType |-> LogicalType,
   SchemaElement |-> SchemaElement, DataPageHeader |-> DataPageHeader,
   IndexPageHeader |-> IndexPageHeader, DictionaryPageHeader |-> DictionaryPageHeader,
   DataPageHeaderV2 |-> DataPageHeaderV2, SplitBlockAlgorithm |-> SplitBlockAlgorithm,
   BloomFilterAlgorithm |-> BloomFilterAlgorithm, XxHash |-> XxHash,
   BloomFilterHash |-> BloomFilterHash, Uncompressed |-> Uncompressed,
   BloomFilterCompression |-> BloomFilterCompression,
   BloomFilterHeader |-> BloomFilterHeader, PageHeader |-> PageHeader,
   KeyValue |-> KeyValue, SortingColumn |-> SortingColumn,
   PageEncodingStats |-> PageEncodingStats, ColumnMetaData |-> ColumnMetaData,
   EncryptionWithFooterKey |-> EncryptionWithFooterKey,
   EncryptionWithColumnKey |-> EncryptionWithColumnKey,
   ColumnCryptoMetaData |-> ColumnCryptoMetaData, ColumnChunk |-> ColumnChunk,
   RowGroup |-> RowGroup, TypeDefinedOrder |-> TypeDefinedOrder,
   ColumnOrder |-> ColumnOrder, PageLocation |-> PageLocation, OffsetIndex |-> OffsetIndex,
   ColumnIndex |-> ColumnIndex, AesGcmV1 |-> AesGcmV1, AesGcmCtrV1 |-> AesGcmCtrV1,
   EncryptionAlgorithm |-> EncryptionAlgorithm, FileMetaData |-> FileMetaData,
   FileCryptoMetaData |-> FileCryptoMetaData]

\* __init__: attributes start as None, which is here an attribute that is not there.
New(class) ==
  [class |-> class,
   attrs |-> CASE class = "DataPageHeaderV2" -> [is_compressed |-> TRUE]
               [] class = "ColumnChunk"      -> [file_offset |-> 0]
               [] OTHER                      -> <<>>]

Has(obj, name) == name \in DOMAIN obj.attrs
=============================================================================
