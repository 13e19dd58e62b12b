----------------------------- MODULE MCDocuments -----------------------------
EXTENDS Documents

\* A request without options.
Plain(endpoint) ==
    [endpoint |-> endpoint, random |-> FALSE, force |-> FALSE, fallback |-> TRUE,
     noCache |-> FALSE, pandocOut |-> FALSE, toPdf |-> FALSE, forced |-> FALSE]

With(configs, toolchains, proxies) ==
    [config : configs, tools : toolchains, proxy : proxies]

All == {"pandoc", "images", "parser"}

MCSetups ==
    UNION {
        With({Plain("readability")}, {All}, {"none"}),
        With({[Plain("readability") EXCEPT !.fallback = FALSE]}, {{}}, {"open"}),
        With({[Plain("readability") EXCEPT !.random = TRUE, !.fallback = FALSE]},
             {{}}, {"none", "http"}),
        With({[Plain("readability") EXCEPT !.pandocOut = TRUE, !.forced = TRUE]},
             {{}, {"pandoc"}}, {"none"}),
        With({[Plain("readability") EXCEPT !.force = TRUE, !.noCache = TRUE]}, {{}}, {"none"}),
        With({Plain("parse"), [Plain("parse") EXCEPT !.toPdf = TRUE, !.fallback = FALSE]},
             {All, {}, {"pandoc"}}, {"none"}),
        With({[Plain("parse") EXCEPT !.force = TRUE, !.forced = TRUE]}, {All}, {"socks"}),
        With({[Plain("extract") EXCEPT !.random = TRUE]}, {All}, {"socks", "http"}),
        With({Plain("kv")}, {All, {}}, {"none"}),
        With({[Plain("eke") EXCEPT !.pandocOut = TRUE], Plain("render"), Plain("images")},
             {All, {}, {"pandoc"}}, {"none"})}

\* A build without the toolchain, asked for markdown.
MCMarkdown == With({Plain("kv")}, {{}}, {"none"})

MCBatchSizes == {-1, 0, 2}
=============================================================================
