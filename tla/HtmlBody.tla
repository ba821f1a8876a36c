------------------------------ MODULE HtmlBody ------------------------------
(***************************************************************************)
(* HTML bodies and the renderers that change them: domain/applier, without *)
(* json_apply.                                                             *)
(*                                                                         *)
(* A body is a sequence of tokens; a token's marks are the attributes it   *)
(* has.  The rewriter (lol_html) and the sanitizer (ammonia) are external. *)
(* A selector is the name of a tag; "" and "*" are refused by              *)
(* validate_selector, and "[" is one the rewriter cannot parse.            *)
(***************************************************************************)
EXTENDS Integers, FiniteSets, Sequences, SequencesExt, Lists

Token(is, name, marks) == [is |-> is, name |-> name, marks |-> marks]
Open(name) == Token("open", name, {})
Close(name) == Token("close", name, {})
Word(text) == Token("word", text, {})
Style(kind) == Token("style", kind, {})
Script(name, marks) == Token("script", name, marks)
Broken == Token("broken", "", {})   \* a tag cut in two

-----------------------------------------------------------------------------
(* Finding and inserting *)

Put(doc, i, fragment) == SubSeq(doc, 1, i) \o fragment \o SubSeq(doc, i + 1, Len(doc))

HasMark(doc, mark) == \E i \in DOMAIN doc : mark \in doc[i].marks

\* inject_style_once: before the first </head>, else in front of everything.
InjectStyleOnce(doc, kind) ==
    LET head == SelectInSeq(doc, LAMBDA t : t = Close("head")) IN
    IF Contains(doc, Style(kind)) THEN doc
    ELSE IF head = 0 THEN <<Style(kind)>> \o doc ELSE Put(doc, head - 1, <<Style(kind)>>)

\* append_to_body: before the last </body>, else after everything.
AppendToBody(doc, fragment) ==
    LET body == SelectLastInSeq(doc, LAMBDA t : t = Close("body")) IN
    IF body = 0 THEN doc \o fragment ELSE Put(doc, body - 1, fragment)

\* The allow-list keeps words and simple tags.
AllowedTags == {"p", "b", "div"}
Sanitize(fragment) ==
    Keeping(fragment, {t \in Range(fragment) :
                          t.is = "word" \/ (t.is \in {"open", "close"} /\ t.name \in AllowedTags)})

-----------------------------------------------------------------------------
(* The rewriter *)

Targets(doc, selector) == {i \in DOMAIN doc : doc[i].is = "open" /\ doc[i].name = selector}

\* The end tag of the tag at i: the first that is not one of a tag inside, as
\* a set of at most one.
EndTag(doc, i) ==
    LET name == doc[i].name
        Count(is, j) == Cardinality({k \in i..j : doc[k].is = is /\ doc[k].name = name})
        closed == {j \in i..Len(doc) : Count("close", j) = Count("open", j)}
    IN  {j \in closed : \A k \in closed : j <= k}

PlaceAt(doc, i, mode, fragment) ==
    CASE mode = "before" -> Put(doc, i - 1, fragment)
      [] mode = "prepend" -> Put(doc, i, fragment)
      [] mode \in {"append", "after", "replace"} ->
            IF EndTag(doc, i) = {} THEN doc
            ELSE LET end == CHOOSE j \in EndTag(doc, i) : TRUE IN
                 IF mode = "append" THEN Put(doc, end - 1, fragment)
                 ELSE IF mode = "after" THEN Put(doc, end, fragment)
                 ELSE SubSeq(doc, 1, i) \o fragment \o SubSeq(doc, end, Len(doc))

\* Every target of the body as it was, the last one first.
Place(doc, selector, mode, fragment) ==
    LET targets == Targets(doc, selector)
        placed[i \in 1..(Len(doc) + 1)] ==
            IF i > Len(doc) THEN doc
            ELSE IF i \in targets THEN PlaceAt(placed[i + 1], i, mode, fragment)
            ELSE placed[i + 1]
    IN  placed[1]

-----------------------------------------------------------------------------
(* The renderers; an outcome of rendering is a body, an error or a panic *)

Rendered(doc) == [kind |-> "ok", doc |-> doc]
Rejected == [kind |-> "error", doc |-> <<>>]
Panicked == [kind |-> "panic", doc |-> <<>>]

\* Fault: the marker is not looked for.
IsMarkedNever(doc, mark) == FALSE

\* A component's marker makes a second pass do nothing.
IsMarked(doc, mark) == HasMark(doc, mark)

\* The selector is validated; element! unwraps what it parses.
Checked(selector, doc, result) ==
    IF selector \in {"", "*"} THEN Rejected
    ELSE IF IsMarked(doc, result.mark) THEN Rendered(doc)
    ELSE IF selector = "[" THEN Panicked
    ELSE Rendered(result.doc)

Wrapped(mark, fragment) ==
    <<Token("open", "div", {mark})>> \o Sanitize(fragment) \o <<Close("div")>>

HtmlInjection(doc, c) ==
    LET mark == <<"injected", c.id>> IN
    Checked(c.config.selector, doc,
            [mark |-> mark,
             doc |-> Place(doc, c.config.selector, c.config.mode, Wrapped(mark, c.config.html))])

TruncatedMark == <<"truncated", "1">>

\* What split_whitespace makes of text between first and last: a tag with
\* attributes has white space in it.
FirstPiece(doc, first, i) ==
    1 + Cardinality({j \in first..(i - 1) : doc[j].is = "word"})
      + Cardinality({at \in (first..(i - 1)) \X UNION {doc[j].marks : j \in first..(i - 1)} :
                        at[2] \in doc[at[1]].marks})
LastPiece(doc, first, i) == FirstPiece(doc, first, i) + Cardinality(doc[i].marks)

\* truncate_words, for the text up to the next end tag of any name.
TrimMarked(doc, count) ==
    LET first == 1 + SelectInSeq(doc, LAMBDA t : TruncatedMark \in t.marks)
        ends == {j \in first..Len(doc) : doc[j].is = "close"}
        end == CHOOSE j \in ends : \A k \in ends : j <= k
        kept == Ascending({i \in first..(end - 1) : FirstPiece(doc, first, i) <= count})
    IN  IF count = 0 \/ first = 1 \/ ends = {} THEN doc
        ELSE SubSeq(doc, 1, first - 1)
             \o [k \in DOMAIN kept |-> IF LastPiece(doc, first, kept[k]) <= count
                                       THEN doc[kept[k]] ELSE Broken]
             \o SubSeq(doc, end, Len(doc))

ContentTruncation(doc, c) ==
    LET targets == Targets(doc, c.config.selector)
        marked == [i \in DOMAIN doc |->
                      IF i \in targets
                      THEN [doc[i] EXCEPT !.marks = @ \union {TruncatedMark}
                                \union IF c.config.fade THEN {<<"class", "fade">>} ELSE {}]
                      ELSE doc[i]]
        trimmed == TrimMarked(marked, c.config.count)
    IN  Checked(c.config.selector, doc,
                [mark |-> TruncatedMark,
                 doc |-> IF c.config.fade THEN InjectStyleOnce(trimmed, "fade") ELSE trimmed])

\* The sticky footer and the popup.
PlacementWrapper(doc, c) ==
    LET mark == <<c.placement, c.id>> IN
    Rendered(IF IsMarked(doc, mark) THEN doc
             ELSE AppendToBody(InjectStyleOnce(doc, c.placement), Wrapped(mark, c.config.html)))

\* Another type of component does nothing.
RenderComponent(doc, c) ==
    CASE c.placement # "inline" -> PlacementWrapper(doc, c)
      [] c.placement = "inline" /\ c.type = "html_injection" -> HtmlInjection(doc, c)
      [] c.placement = "inline" /\ c.type = "content_truncation" -> ContentTruncation(doc, c)
      [] OTHER -> Rendered(doc)

-----------------------------------------------------------------------------
(* Pages and the components for them *)

\* A page is a list of tokens; of its scripts none is the proxy's.
IsToken(t) == t = Token(t.is, t.name, t.marks) /\ (t.is = "script" => t.marks = {})
IsPage(doc) == doc \in Seq(Range(doc)) /\ \A t \in Range(doc) : IsToken(t)

\* Without an html_body a component's fragment is empty.
IsHtmlComponent(c) ==
    /\ c.placement \in {"inline", "sticky_footer", "popup"}
    /\ c.order \in Int
    /\ c.placement # "inline" \/ c.type = "html_injection" => IsPage(c.config.html)
    /\ c.placement = "inline" /\ c.type = "html_injection" =>
          c.config.mode \in {"before", "prepend", "append", "after", "replace"}
    /\ c.placement = "inline" /\ c.type = "content_truncation" =>
          c.config.count \in Nat /\ c.config.fade \in BOOLEAN

=============================================================================
