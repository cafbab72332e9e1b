------------------------------- MODULE MCCatalog -------------------------------
(* Two channels of two sites, a third made by hand; configurations and answers of each kind. *)
EXTENDS Catalog

MCBaseOf == [c \in {"c1", "c2", "c3"} |-> IF c = "c1" THEN "b1" ELSE "b2"]

\* c1: a mapping spelled as a string and a list of names; the others: nothing that is a model.
MCRaw == [c \in {"c1", "c2", "c3"} |->
  IF c = "c1"
    THEN Map([models |-> Names(<<"gpt-4", "my-turbo", "other">>),
              model_mapping |-> Encoded(Map(("gpt-4o-mini" :> Text("gpt-4")))),
              model_ratio |-> Encoded(Map(("gpt-4" :> Num(3))))])
    ELSE Map([name |-> Text("relay")])]

MCAnswers ==
  {[http |-> 200, body |-> Map([data |-> List(<<Map([id |-> Text("gpt-4")]), Map([id |-> Text("other")])>>)])],
   [http |-> 401, body |-> Null]}

\* Two keys of one map give its price; a bare ratio stands for all the models named.
MCPricings ==
  {[http |-> 200,
    body |-> Map([data |-> List(<<Map([model |-> Text("gpt-4"), quota_type |-> Num(0), model_price |-> Digits(2),
                                       completion_ratio |-> Num(4)])>>)])],
   [http |-> 200, body |-> Map([models |-> List(<<Text("gpt-4"), Map([name |-> Text("deepseek-chat")])>>),
                               model_ratio |-> Num(1)])],
   [http |-> 200, body |-> Unreadable],
   [http |-> 0, body |-> Null]}

MCRecords ==
  {[account |-> "a1", site |-> Id("b1", 1), status |-> "valid", samples |-> {"gpt-4"}, test |-> "gpt-4",
    usable |-> TRUE, latency |-> 5],
   [account |-> "a2", site |-> Id("b2", 1), status |-> "unchecked", samples |-> {}, test |-> NoText,
    usable |-> FALSE, latency |-> 0]}

\* c3 and its site are still to be made.
MCStarts ==
  {[c \in {"c1", "c2", "c3"} |->
      CASE c = "c1" -> Row("active", NotMissing) [] c = "c2" -> Row("missing", 1)
        [] c = "c3" -> Row("none", NotMissing)]}

MCSymmetry == Permutations(Loaders) \cup Permutations(Batches)
===============================================================================
