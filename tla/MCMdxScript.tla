----------------------------- MODULE MCMdxScript -----------------------------
(* MdxScript for TLC: its constants are all ordinary values.                  *)
EXTENDS MdxScript

\* import Context; import Context as C; import h from './Context'
Imports == {<<"import", "Context">>, <<"import", "Context", "as", "C">>,
            <<"import", "h", "from", "Context">>}

\* Prose, and a constant without its export.
Beginnings == {<<"Published">>, <<"const", "x", "=">>}
=============================================================================
