------------------------- MODULE DecisionProcessors -------------------------
(***************************************************************************)
(* The decision processors of the proxy (processors/): what a decision     *)
(* node's configuration answers for a request.  The proxy keeps its own    *)
(* lists of operators, apart from the manifest's.                          *)
(***************************************************************************)
EXTENDS RuleGraph

CONSTANT MaxPatternLen   \* length bound of paths and patterns, in words

ASSUME PatternAssumption == MaxPatternLen \in Nat

Branch(hit) == IF hit THEN "yes" ELSE "no"

IsString(value) == value.type = "string"

Operators(names) == {<<name>> : name \in names}

\* An operator or a value as_str() does not give is a config error.
HasText(config, names) == \A name \in names : IsString(Get(config, name))
TextOf(config, name) == Get(config, name).text

IsSubText(text, part) ==
    \E i \in 1..(Len(text) + 1) : IsPrefix(part, SubSeq(text, i, Len(text)))

\* The comparisons an operator makes between a text and the configured value;
\* matching a regular expression is external, and the pattern "(" is none.
Compare(operator, text, value) ==
    CASE operator = "equals" -> text = value
      [] operator = "contains" -> IsSubText(text, value)
      [] operator = "starts_with" -> IsPrefix(value, text)
      [] operator = "ends_with" -> IsSuffix(value, text)
      [] operator = "matches" -> IsSubText(text, value)

MetaTags(config, c) ==
    LET tag == TextOf(config, "tag_name")
        operator == TextOf(config, "operator")
    IN  IF \/ ~HasText(config, {"operator", "tag_name"})
           \/ tag = <<>>
           \/ Len(tag) > MaxPatternLen
           \/ "!" \in Range(tag)
           \/ operator \notin Operators({"exists", "equals", "contains"})
        THEN "error"
        ELSE Branch(/\ tag \in DOMAIN c.meta
                    /\ \/ operator = <<"exists">>
                       \/ /\ IsString(Get(config, "value"))
                          /\ Compare(operator[1], c.meta[tag], TextOf(config, "value")))

DeviceType(config, c) ==
    LET operator == TextOf(config, "operator") IN
    IF ~HasText(config, {"operator", "value"}) \/ operator \notin Operators({"equals", "contains"})
    THEN "error"
    ELSE Branch(Compare(operator[1], c.device, TextOf(config, "value")))

ArticleUrl(config, c) ==
    LET operator == TextOf(config, "operator")
        value == TextOf(config, "value")
    IN  IF \/ ~HasText(config, {"operator", "value"})
           \/ Len(value) > MaxPatternLen
           \/ operator \notin Operators({"equals", "contains", "starts_with", "matches"})
           \/ operator = <<"matches">> /\ "(" \in Range(value)
        THEN "error"
        ELSE Branch(Compare(operator[1], c.url, value))

\* The trimmed items of is_one_of's list, a word each; a value that has no word
\* still has one item, the empty text.
Items(value) ==
    IF value = <<>> THEN {<<>>}
    ELSE {IF word = " " THEN <<>> ELSE <<word>> : word \in Range(value)}

JsonExpression(config, c) ==
    LET operator == TextOf(config, "operator")
        path == TextOf(config, "json_path")
        value == IF HasText(config, {"value"}) THEN TextOf(config, "value") ELSE <<>>
    IN  IF ~HasText(config, {"json_path", "operator"}) \/ Len(path) > MaxPatternLen THEN "error"
        ELSE IF ~c.hasBody THEN "no"
        ELSE IF \/ path = <<>> \/ path[1] # "$"
                \/ operator \notin Operators({"exists", "equals", "contains", "starts_with",
                                            "ends_with", "is_one_of"})
        THEN "error"
        ELSE LET matched == IF path \in DOMAIN c.body THEN c.body[path] ELSE {} IN
             Branch(\E text \in matched :
                      \/ operator = <<"exists">>
                      \/ operator = <<"is_one_of">> /\ text \in Items(value)
                      \/ /\ operator \notin {<<"exists">>, <<"is_one_of">>}
                         /\ Compare(operator[1], text, value))

\* A request served without a matched site has none.
SiteMatch(config, c) ==
    IF ~HasText(config, {"site"}) THEN "error" ELSE Branch(TextOf(config, "site") \in c.site)

\* The registered processor of a kind; another kind is an error.
Decide(config, c) ==
    CASE config.type = "meta_tags" -> MetaTags(config, c)
      [] config.type = "device_type" -> DeviceType(config, c)
      [] config.type = "article_url" -> ArticleUrl(config, c)
      [] config.type = "json_expression" -> JsonExpression(config, c)
      [] config.type = "site_match" -> SiteMatch(config, c)
      [] OTHER -> "error"

=============================================================================
