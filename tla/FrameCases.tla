---------------------------- MODULE FrameCases -----------------------------
(***************************************************************************)
(* What the format-aware reducers yield: form pairs, URLSearchParams       *)
(* requests, multipart parts and HTTP chunks.  A reducer parses the case,  *)
(* proposes edits of its parts in a fixed order, encodes each, and emits   *)
(* those shorter than the case and not emitted before.                     *)
(*                                                                         *)
(* Texts are sequences of characters; character 2 takes two bytes.         *)
(***************************************************************************)
EXTENDS ListDeletions

Sum(sizes) ==
  LET sum[n \in 0..Len(sizes)] == IF n = 0 THEN 0 ELSE sum[n - 1] + sizes[n]
  IN  sum[Len(sizes)]
Bytes(text) == Sum([i \in DOMAIN text |-> IF text[i] = 2 THEN 2 ELSE 1])

\* emit(): the proposals shorter than raw, each once.
Emitted(raw, proposals, Size(_)) ==
  EachOnce(Those(proposals, LAMBDA p : Size(p) < Size(raw)))

Deleting(items) == [i \in DOMAIN items |-> RemoveAt(items, i)]

\* Every item in turn replaced by each of its own reductions.
Editing(items, Reductions(_)) ==
  FlattenSeq([i \in DOMAIN items |->
    LET reduced == Reductions(items[i])
    IN  [j \in DOMAIN reduced |-> [items EXCEPT ![i] = reduced[j]]]])

Front_Half(text) == SubSeq(text, 1, Len(text) \div 2)
Back_Half(text) == SubSeq(text, Len(text) \div 2 + 1, Len(text))

EmptyOr(text, more) ==
  IF text = <<>> THEN <<>> ELSE IF Len(text) = 1 THEN << <<>> >> ELSE << <<>> >> \o more

\* form, multipart bodies and chunks: nothing, the first half, the last one.
string_reductions(text) == EmptyOr(text, <<Front_Half(text), <<Last(text)>> >>)
\* URLSearchParams: nothing, either half.
field_reductions(value) == EmptyOr(value, <<Front_Half(value), Back_Half(value)>>)

----------------------------------------------------------------------------
(* form_urlencoded_reducer.py: a frame is a sequence of <<key, value>>.    *)

FormSize(pairs) ==
  4 + Sum([i \in DOMAIN pairs |-> 8 + Bytes(pairs[i][1]) + Bytes(pairs[i][2])])

form_candidates(pairs) ==
  Emitted(pairs,
          Deleting(pairs) \o Editing(pairs, LAMBDA p : Editing(p, string_reductions)),
          FormSize)

----------------------------------------------------------------------------
(* url_search_params_reducer.py: a request is <<pairs, operations>>, an     *)
(* operation its fields: two (append, set), one (delete) or none (sort).    *)

RequestSize(request) ==
  8 + Sum([i \in DOMAIN request[1] |-> 8 + Bytes(FlattenSeq(request[1][i]))])
    + Sum([i \in DOMAIN request[2] |->
             1 + 4 * Len(request[2][i]) + Bytes(FlattenSeq(request[2][i]))])

url_candidates(request) ==
  LET fields(record) == Editing(record, field_reductions)
      pairs(edits) == [i \in DOMAIN edits |-> <<edits[i], request[2]>>]
      operations(edits) == [i \in DOMAIN edits |-> <<request[1], edits[i]>>]
  IN  Emitted(request,
              operations(Deleting(request[2])) \o pairs(Deleting(request[1]))
              \o pairs(Editing(request[1], fields)) \o operations(Editing(request[2], fields)),
              RequestSize)

----------------------------------------------------------------------------
(* multipart_form_data_reducer.py: a part is <<body, star>>, star the       *)
(* number of percent-encoded octets of its filename*, 0 without one.        *)

BoundaryBytes == 10
PartsSize(parts) ==
  Sum([i \in DOMAIN parts |-> BoundaryBytes + Len(parts[i][1]) + 3 * parts[i][2]])

star_reductions(star) ==
  LET half == IF star \div 2 < 1 THEN 1 ELSE star \div 2
  IN  Those(IF half = 1 THEN <<1>> ELSE <<half, 1>>, LAMBDA n : n < star)

part_reductions(part) ==
  LET bodies == string_reductions(part[1])
      stars == star_reductions(part[2])
  IN  [i \in DOMAIN bodies |-> <<bodies[i], part[2]>>]
      \o [i \in DOMAIN stars |-> <<part[1], stars[i]>>]

multipart_candidates(parts) ==
  Emitted(parts,
          (IF Len(parts) > 1 THEN Deleting(parts) ELSE <<>>)
            \o Editing(parts, part_reductions),
          PartsSize)

----------------------------------------------------------------------------
(* http_chunked_content_encoding_reducer.py: a body is its chunks; encoding *)
(* drops the empty ones.  Sizes are below 16 bytes, one digit each.         *)

ChunksSize(chunks) == 6 + Sum([i \in DOMAIN chunks |-> 5 + Len(chunks[i])])

Framed(chunks) == Those(chunks, LAMBDA c : c # <<>>)

Merging(chunks) ==
  [i \in DOMAIN SubSeq(chunks, 2, Len(chunks)) |->
    SubSeq(chunks, 1, i - 1) \o <<chunks[i] \o chunks[i + 1]>> \o SubSeq(chunks, i + 2, Len(chunks))]

chunk_candidates(chunks) ==
  LET edits == Deleting(chunks) \o Merging(chunks) \o Editing(chunks, string_reductions)
  IN  Emitted(chunks, [i \in DOMAIN edits |-> Framed(edits[i])], ChunksSize)
=============================================================================
