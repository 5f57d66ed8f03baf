---------------------------- MODULE MCStannumIndex ----------------------------
\* Two schemas with a table docs each, and a docs_x in the first: handles that are
\* qualified or not, two whose default names collide, one with a name in capitals,
\* one with another tokenizer.
EXTENDS StannumIndex

CONSTANTS s1, s2, docs, docs_x, body, x_body,
          docs_body, docs_x_body, DOCS_BODY, jieba, unicode

MCPath == <<s1, s2>>
MCTable == {[schema |-> s1, name |-> docs], [schema |-> s2, name |-> docs],
            [schema |-> s1, name |-> docs_x]}
MCDefault ==
    [pair \in {docs, docs_x} \X {body, x_body} |->
        IF pair = <<docs, body>> THEN docs_body ELSE docs_x_body]
MCFold ==
    [n \in {s1, s2, NoSchema, docs_body, docs_x_body, DOCS_BODY} |->
        IF n = DOCS_BODY THEN docs_body ELSE n]
On(schema, table, column, given, tokenizer) ==
    [schema |-> schema, table |-> table, column |-> column, given |-> given,
     tokenizer |-> tokenizer]
MCHandle == {On(s1, docs, body, NoName, jieba), On(s2, docs, body, NoName, unicode),
             On(NoSchema, docs, body, NoName, jieba),
             On(s1, docs, x_body, NoName, jieba), On(s1, docs_x, body, NoName, jieba),
             On(s1, docs, body, DOCS_BODY, jieba)}
=============================================================================
