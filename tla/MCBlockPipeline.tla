-------------------------- MODULE MCBlockPipeline --------------------------
(* Instances of BlockPipeline for TLC. *)
EXTENDS BlockPipeline

X(id)    == [id |-> id, params |-> FALSE]
Quantize == [id |-> "quantize", params |-> TRUE]
Plain    == <<X(None), X(None)>>

Steps == {X(None), X("quantize"), Quantize} \cup
         {X(id) : id \in {"zigzag", "byte_shuffle", "bit_shuffle", "custom_xform"}}
Chains      == {<<x, y>> : x, y \in Steps}
CoderChains == {<<None, None>>, <<"lz", None>>, <<"lz", "lz">>,
                <<"custom_coder", "lz">>, <<None, "lz">>}

AllBlocks == [dtype : Dtypes, layout : Layouts, n : {0, 1, 16},
              exact : BOOLEAN, validity : {FALSE}]
AllModels == CoreModels \cup PluginModels

Case(blk, model, xform, coders) ==
    [src |-> blk, spec |-> [model |-> model, xform |-> xform, entropy |-> coders]]
\* Blocks a model accepts: element types that differ in what follows, and
\* exactly fitted only where the model's output depends on it.
Accepted(model) ==
    {b \in AllBlocks : /\ ModelStatus(model, b) = "ok"
                       /\ b.dtype \in {"i16", "f64", "string"}
                       /\ b.exact => model \in {"sparse_zero_1d", "plane_2d", "custom"}
                       /\ b.layout = "raster" => "vector" \notin ModelLayouts(model)}

\* Every model on every block; every chain of transforms on what the model
\* accepts; every chain of coders, with and without a transform and a bitmap.
MCCases ==
    {Case(b, m, Plain, <<"lz", None>>) : b \in AllBlocks, m \in AllModels}
    \cup UNION {{Case(b, m, x, <<"lz", None>>) : b \in Accepted(m), x \in Chains} :
                m \in AllModels}
    \cup UNION {{Case([b EXCEPT !.validity = v], m, <<x, X(None)>>, c) :
                    b \in {a \in Accepted(m) : a.n \in {0, 16}}, v \in BOOLEAN,
                    x \in {X(None), X("byte_shuffle")}, c \in CoderChains} :
                m \in AllModels}

\* Rasters of doubles through a model with side metadata and a transform with
\* parameters, and through a plugin's transform.
Raster == [dtype |-> "f64", layout |-> "raster", n |-> 16,
           exact |-> FALSE, validity |-> FALSE]
QuantizedCases == {Case(Raster, "pred_2d", <<Quantize, X(None)>>, <<"lz", None>>)}
PluginCases == {Case(Raster, m, <<X("custom_xform"), x>>, <<"lz", None>>) :
                   m \in {"raw", "pred_2d"}, x \in {X(None), X("byte_shuffle")}}
=============================================================================
