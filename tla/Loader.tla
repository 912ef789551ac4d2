------------------------------- MODULE Loader -------------------------------
(***************************************************************************)
(* DocumentLoader of app/ingestion/loader.py, as operators: what becomes   *)
(* of the bytes of a document.  Bytes are a record: their number (size),   *)
(* whether they are valid UTF-8 (utf8), the characters that the decoder    *)
(* makes of them (text), and of what form they are: if it is "json", the   *)
(* field json is their value, if it is "pdf", the field pages has their    *)
(* pages.  In HTML, the character Tag is one <...> of any length.  Content *)
(* types are lower case, without parameters.                               *)
(***************************************************************************)
EXTENDS Chunker

CONSTANTS MaxBytes,  \* settings.max_document_bytes
          JsonDepth, \* the depth from which on _json_to_text prints values, 8
          Tag,       \* a tag of HTML
          JsonValues, \* the values that JSON documents hold, and the parts of them
          Nesting    \* how deep the parts of each of them are nested

ASSUME LoaderAssumption ==
    /\ MaxBytes \in Nat /\ JsonDepth \in Nat
    /\ Nesting \in [JsonValues -> Nat]
    /\ \A v \in JsonValues :
          IF v.is = "leaf" THEN v.text \in Text
          ELSE /\ v.values \in Seq(JsonValues)
               /\ \A i \in DOMAIN v.values : Nesting[v.values[i]] < Nesting[v]
               /\ v.is = "dict" => v.keys \in [DOMAIN v.values -> Text]

\* The signs that JSON values are printed with.
ASSUME SignsAssumption == {"{", "}", ":"} \subseteq Characters

\* The bytes of a document.
IsRaw(raw) ==
    /\ raw.form \in {"text", "json", "pdf"} /\ raw.utf8 \in BOOLEAN
    /\ raw.size \in Nat /\ raw.text \in Text
    /\ raw.form = "json" => raw.json \in JsonValues
    /\ raw.form = "pdf" =>
          /\ raw.pages \in Seq({raw.pages[i] : i \in DOMAIN raw.pages})
          /\ \A i \in DOMAIN raw.pages : raw.pages[i].readable => raw.pages[i].text \in Text

\* What a step of loading ends in.
Raises(error) == [error |-> error, content |-> <<>>]
Returns(content) == [error |-> "none", content |-> content]

\* re.sub of runs of characters of a set by one blank
Collapse(t, set) ==
    Loop(Len(t), <<>>, LAMBDA i, out :
             IF t[i] \notin set THEN Append(out, t[i])
             ELSE IF out # <<>> /\ Last(out) = Space THEN out ELSE Append(out, Space))

JoinLines(lines) == Join(<<NewLine>>, lines)

\* _normalize: blanks collapse, lines are stripped, blank lines at either end are dropped.
Normalize(t) ==
    LET lines == [i \in DOMAIN Split(t, <<NewLine>>) |->
                     Strip(Collapse(Split(t, <<NewLine>>)[i], Blanks \ {NewLine}))]
        full == {i \in DOMAIN lines : lines[i] # <<>>}
    IN  IF full = {} THEN <<>> ELSE JoinLines(SubSeq(lines, Min(full), Max(full)))

\* The label of item i of a JSON dict in front of the text of its value.
Labelled(v, i, text) == IF v.is = "dict" THEN v.keys[i] \o <<":", Space>> \o text ELSE text

\* str() of a JSON value.
Printed(v) ==
    LET str[w \in JsonValues] ==
            IF w.is = "leaf" THEN w.text
            ELSE <<"{">> \o FlattenSeq([i \in DOMAIN w.values |-> Labelled(w, i, str[w.values[i]])])
                        \o <<"}">>
    IN  str[v]

\* The texts of the values, made of the texts of their parts.
OneLevel(text) ==
    [w \in JsonValues |->
        IF w.is = "leaf" THEN Printed(w)
        ELSE JoinLines([i \in DOMAIN w.values |-> Labelled(w, i, text[w.values[i]])])]

\* _json_to_text: values deeper than JsonDepth are printed, those above them are joined.
JsonToText(v) ==
    Loop(JsonDepth + 1, [w \in JsonValues |-> Printed(w)], LAMBDA k, text : OneLevel(text))[v]

StripHtml(t) ==
    Strip(Collapse([i \in DOMAIN t |-> IF t[i] = Tag THEN Space ELSE t[i]], Blanks))

\* _pdf_to_text: a page that cannot be read is passed over.
PdfToText(pages) ==
    Strip(JoinLines(FlattenSeq([i \in DOMAIN pages |->
                                   IF pages[i].readable THEN <<pages[i].text>> ELSE <<>>])))

\* What is parsed as HTML.
HtmlTypes == {"text/html", "application/xhtml+xml"}

\* _parse: every exception becomes a DocumentParseError.
Parse(raw, type) ==
    CASE type \in {"text/plain", "text/markdown"} ->
             IF raw.utf8 THEN Returns(raw.text) ELSE Raises("DocumentParseError")
      [] type = "application/json" ->
             IF raw.utf8 /\ raw.form = "json" THEN Returns(JsonToText(raw.json))
             ELSE Raises("DocumentParseError")
      [] type \in HtmlTypes -> Returns(StripHtml(raw.text))
      [] type = "application/pdf" ->
             IF raw.form = "pdf" THEN Returns(PdfToText(raw.pages))
             ELSE Raises("DocumentParseError")
      [] OTHER -> Returns(raw.text)

\* _check_size
FitsLimit(n) == n <= MaxBytes

\* Document(...): its validator refuses blank content.
MakeDocument(content) == IF IsBlank(content) THEN Raises("ValidationError") ELSE Returns(content)

\* load_text, load_bytes, and load_file from the bytes on.
Load(raw, type) ==
    LET parsed == Parse(raw, type)
    IN  CASE ~FitsLimit(raw.size) -> Raises("DocumentTooLargeError")
          [] FitsLimit(raw.size) /\ parsed.error # "none" -> parsed
          [] OTHER -> MakeDocument(Normalize(parsed.content))

\* _guess_content_type
GuessContentType(suffix) ==
    CASE suffix = ".txt" -> "text/plain"
      [] suffix \in {".md", ".markdown"} -> "text/markdown"
      [] suffix = ".json" -> "application/json"
      [] suffix \in {".html", ".htm"} -> "text/html"
      [] suffix = ".pdf" -> "application/pdf"
      [] OTHER -> "application/octet-stream"
=============================================================================
