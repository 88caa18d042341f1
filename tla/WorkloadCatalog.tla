-------------------------- MODULE WorkloadCatalog --------------------------
(***************************************************************************)
(* The graphs that the builders of the workload catalog make               *)
(* (sim/workloads/catalog.py).  A graph is the list of its nodes in the    *)
(* order they are appended, graph inputs among them; every node writes one *)
(* tensor, so a tensor has the name of its node, <<name, layer>>.  A node  *)
(* has the tensors it reads, the leading extents of what it writes (the    *)
(* symbolic dimensions and the fixed one), its width, and the extents of   *)
(* its weight, <<>> without one.                                           *)
(***************************************************************************)
EXTENDS Integers, Sequences, SequencesExt

CONSTANT Depth   \* layers of the deep stacks, which do not depend on their number

Node(op, id, ins, lead, width, weight) ==
    [op |-> op, id |-> id, ins |-> ins, lead |-> lead, width |-> width, weight |-> weight]

Given(name, lead, width) == Node("input", <<name, 0>>, <<>>, lead, width, <<>>)
Gemm(id, in, k, n, lead) == Node("gemm", id, <<in>>, lead, n, <<k, n>>)
Op(op, id, ins, lead, width) == Node(op, id, ins, lead, width, <<>>)

(* One part per layer, one after the other. *)
Layered(n, layer(_)) == FlattenSeq([i \in 1..n |-> layer(i - 1)])

Ids(graph) == {graph[i].id : i \in DOMAIN graph}

(* _wire_consumers and _linear_chain_deps. *)
Consumers(graph, t) == {n.id : n \in {m \in ToSet(graph) : Contains(m.ins, t)}}
ChainAfter(graph) ==
    LET run == SelectSeq(graph, LAMBDA n : n.op # "input")
    IN {<<run[i].id, run[i + 1].id>> : i \in 1..(Len(run) - 1)}
-----------------------------------------------------------------------------
(* A decoder: attention and a gated feed-forward part per layer. *)
QwenAttention(l, prev, lead, hidden) ==
    LET At(name) == <<name, l>>
        Proj(name) == Gemm(At(name), At("ln1"), hidden, hidden, lead)
    IN <<Op("layernorm", At("ln1"), <<prev>>, lead, hidden),
         Proj("q"), Proj("k"), Proj("v"),
         Op("softmax", At("attn"), <<At("q"), At("k"), At("v")>>, lead, hidden),
         Gemm(At("o"), At("attn"), hidden, hidden, lead),
         Op("add", At("add1"), <<prev, At("o")>>, lead, hidden)>>

(* Faulty: the projection reads the half that the gate has not scaled. *)
QwenUngated(l, lead, hidden, mid) ==
    LET At(name) == <<name, l>>
        Gate(name) == Gemm(At(name), At("ln2"), hidden, mid, lead)
    IN <<Op("layernorm", At("ln2"), <<At("add1")>>, lead, hidden),
         Gate("expand"), Gate("gate"),
         Op("mul", At("swiglu"), <<At("expand"), At("gate")>>, lead, mid),
         Gemm(At("proj"), At("expand"), mid, hidden, lead),
         Op("add", At("add2"), <<At("add1"), At("proj")>>, lead, hidden)>>

QwenFeedForward(l, lead, hidden, mid) ==
    LET At(name) == <<name, l>>
        Gate(name) == Gemm(At(name), At("ln2"), hidden, mid, lead)
    IN <<Op("layernorm", At("ln2"), <<At("add1")>>, lead, hidden),
         Gate("expand"), Gate("gate"),
         Op("mul", At("swiglu"), <<At("expand"), At("gate")>>, lead, mid),
         Gemm(At("proj"), At("swiglu"), mid, hidden, lead),
         Op("add", At("add2"), <<At("add1"), At("proj")>>, lead, hidden)>>

Qwen(hidden, mid, vocab) ==
    LET lead == <<{"batch", "seq_len"}, 1>>
        Prev(l) == IF l = 0 THEN <<"embed", 0>> ELSE <<"add2", l - 1>>
        Layer(l) == QwenAttention(l, Prev(l), lead, hidden) \o QwenFeedForward(l, lead, hidden, mid)
    IN <<Given("input_ids", lead, 1), Gemm(<<"embed", 0>>, <<"input_ids", 0>>, vocab, hidden, lead)>>
       \o Layered(Depth, Layer)
       \o <<Op("layernorm", <<"final_ln", 0>>, <<Prev(Depth)>>, lead, hidden),
            Gemm(<<"classifier", 0>>, <<"final_ln", 0>>, hidden, vocab, lead)>>
-----------------------------------------------------------------------------
(* A classifier of image patches. *)
VitAttention(l, prev, lead, hidden) ==
    LET At(name) == <<name, l>>
        Proj(name) == Gemm(At(name), At("ln1"), hidden, hidden, lead)
    IN <<Op("layernorm", At("ln1"), <<prev>>, lead, hidden),
         Proj("q"), Proj("k"), Proj("v"),
         Op("softmax", At("attn"), <<At("q"), At("k")>>, lead, lead[2]),
         Op("mul", At("v_mul"), <<At("attn"), At("v")>>, lead, hidden),
         Gemm(At("o"), At("v_mul"), hidden, hidden, lead),
         Op("add", At("add1"), <<prev, At("o")>>, lead, hidden)>>

VitMlp(l, lead, hidden, mid) ==
    LET At(name) == <<name, l>>
    IN <<Op("layernorm", At("ln2"), <<At("add1")>>, lead, hidden),
         Gemm(At("mlp_expand"), At("ln2"), hidden, mid, lead),
         Op("gelu", At("mlp_gelu"), <<At("mlp_expand")>>, lead, mid),
         Gemm(At("mlp_proj"), At("mlp_gelu"), mid, hidden, lead),
         Op("add", At("add2"), <<At("add1"), At("mlp_proj")>>, lead, hidden)>>

Vit(image, patch, channels, hidden, mid, classes) ==
    LET patches == (image \div patch) * (image \div patch)
        lead == <<{"image_count"}, patches + 1>>
        Prev(l) == IF l = 0 THEN <<"patch_embed", 0>> ELSE <<"add2", l - 1>>
        Layer(l) == VitAttention(l, Prev(l), lead, hidden) \o VitMlp(l, lead, hidden, mid)
    IN <<Given("image", <<{"image_count"}, image>>, channels),
         Gemm(<<"patch_embed", 0>>, <<"image", 0>>, patch * patch * channels, hidden,
              <<{"image_count"}, patches>>)>>
       \o Layered(Depth, Layer)
       \o <<Op("layernorm", <<"final_ln", 0>>, <<Prev(Depth)>>, lead, hidden),
            Gemm(<<"classifier", 0>>, <<"final_ln", 0>>, hidden, classes, <<{"image_count"}, 1>>)>>
-----------------------------------------------------------------------------
(* A detector: widths are channels, the fixed extent is the image's side;  *)
(* a convolution <<c, k>> takes c channels to k, and is activated.         *)
Conv(name, l, in, c, k, side) ==
    Node("conv", <<name, l>>, <<in>>, <<{"image_count"}, side>>, k, <<c, k>>)
Activated(name, l, in, c, k, side) ==
    <<Conv(name, l, in, c, k, side),
      Op("relu", <<name \o "_act", l>>, <<<<name, l>>>>, <<{"image_count"}, side>>, k)>>
Act(name) == <<name \o "_act", 0>>
Joined(op, name, ins, width, side) == Op(op, <<name, 0>>, ins, <<{"image_count"}, side>>, width)

YoloBackbone(image) ==
    <<Given("image", <<{"image_count"}, image>>, 3)>>
    \o Activated("stem", 0, <<"image", 0>>, 3, 16, 320)
    \o Activated("stage1", 0, Act("stem"), 16, 32, 160)
    \o Activated("stage2_cv1", 0, Act("stage1"), 32, 32, 160)
    \o Activated("stage3", 0, Act("stage2_cv1"), 32, 64, 80)
    \o Activated("stage4_cv1", 0, Act("stage3"), 64, 64, 80)
    \o Activated("stage5", 0, Act("stage4_cv1"), 64, 128, 40)
    \o Activated("stage6_cv1", 0, Act("stage5"), 128, 128, 40)
    \o Activated("stage7", 0, Act("stage6_cv1"), 128, 256, 20)
    \o Activated("stage8_cv1", 0, Act("stage7"), 256, 256, 20)
    \o <<Joined("max_pool", "sppf_m0", <<Act("stage8_cv1")>>, 256, 20),
         Joined("max_pool", "sppf_m1", <<<<"sppf_m0", 0>>>>, 256, 20),
         Joined("max_pool", "sppf_m2", <<<<"sppf_m1", 0>>>>, 256, 20),
         Joined("concat", "sppf_concat",
                <<Act("stage8_cv1"), <<"sppf_m0", 0>>, <<"sppf_m1", 0>>, <<"sppf_m2", 0>>>>, 1024, 20)>>
    \o Activated("sppf_cv2", 0, <<"sppf_concat", 0>>, 1024, 256, 20)

(* Two scales joined and convolved. *)
Fused(name, one, other, c, k, side) ==
    <<Joined("concat", name \o "_concat", <<one, other>>, c, side)>>
    \o Activated(name \o "_cv1", 0, <<name \o "_concat", 0>>, c, k, side)

YoloNeck ==
    <<Joined("reshape", "p5_upsample", <<Act("sppf_cv2")>>, 256, 40)>>
    \o Fused("neck_p4", Act("stage6_cv1"), <<"p5_upsample", 0>>, 384, 128, 40)
    \o <<Joined("reshape", "p4_upsample", <<Act("neck_p4_cv1")>>, 128, 80)>>
    \o Fused("neck_p3", Act("stage4_cv1"), <<"p4_upsample", 0>>, 192, 64, 80)
    \o Activated("neck_p3_down", 0, Act("neck_p3_cv1"), 64, 64, 40)
    \o Fused("neck_p4_2", Act("neck_p4_cv1"), Act("neck_p3_down"), 192, 128, 40)
    \o Activated("neck_p4_2_down", 0, Act("neck_p4_2_cv1"), 128, 128, 20)
    \o Fused("neck_p5_2", Act("sppf_cv2"), Act("neck_p4_2_down"), 384, 256, 20)

YoloHead(p, feat, c, side, classes) ==
    LET After(name) == <<name \o "_act", p>>
    IN Activated("box0", p, feat, c, c, side) \o Activated("box1", p, After("box0"), c, c, side)
       \o <<Conv("box2", p, After("box1"), c, 64, side)>>
       \o Activated("cls0", p, feat, c, 80, side) \o Activated("cls1", p, After("cls0"), 80, 80, side)
       \o <<Conv("cls2", p, After("cls1"), 80, classes, side)>>

Yolo(image, classes) ==
    YoloBackbone(image) \o YoloNeck
    \o YoloHead(3, Act("neck_p3_cv1"), 64, 80, classes)
    \o YoloHead(4, Act("neck_p4_2_cv1"), 128, 40, classes)
    \o YoloHead(5, Act("neck_p5_2_cv1"), 256, 20, classes)
-----------------------------------------------------------------------------
(* What the robot models share: a feed-forward part, and an action head    *)
(* whose steps each refine the output of the one before.                   *)
Ffn(stack, l, in, lead, width) ==
    LET At(name) == <<stack \o name, l>>
    IN <<Gemm(At("ffn"), in, width, width * 4, lead),
         Op("gelu", At("gelu"), <<At("ffn")>>, lead, width * 4),
         Gemm(At("proj"), At("gelu"), width * 4, width, lead)>>

VlLayer(l, in, lead, width) == Ffn("vl_", l, in, lead, width)
VlLast(l) == IF l = 0 THEN <<"vl_ln", 0>> ELSE <<"vl_proj", l - 1>>

Batch == <<{"batch"}, 1>>

Flow(step, first, in_dim, hidden, action) ==
    LET At(name) == <<name, step>>
        in == IF step = 0 THEN first ELSE <<"fc2", step - 1>>
    IN <<Gemm(At("fc1"), in, IF step = 0 THEN in_dim ELSE action, hidden, Batch),
         Op("gelu", At("fc_gelu"), <<At("fc1")>>, Batch, hidden),
         Gemm(At("fc2"), At("fc_gelu"), hidden, action, Batch)>>

Camera(name, dim) == Given(name, <<{dim}, 224>>, 3)
Tokens(dim) == <<{dim}, 197>>
PatchEmbed(image, dim, hidden) == Gemm(<<"patch_embed", 0>>, <<image, 0>>, 588, hidden, Tokens(dim))

SmolVision(l, hidden) ==
    LET At(name) == <<name, l>>
        prev == IF l = 0 THEN <<"patch_embed", 0>> ELSE <<"o", l - 1>>
        Proj(name, in) == Gemm(At(name), At(in), hidden, hidden, Tokens("image_count"))
    IN <<Op("layernorm", At("ln"), <<prev>>, Tokens("image_count"), hidden),
         Proj("q", "ln"), Proj("k", "ln"), Proj("v", "ln"), Proj("o", "v")>>

SmolVla(vision, vl, dim, horizon, steps) ==
    LET lead == Tokens("image_count")
        Vision(l) == SmolVision(l, vision)
        Vl(l) == VlLayer(l, VlLast(l), lead, vl)
        Step(s) == Flow(s, <<"action_in", 0>>, dim, 256, dim * horizon)
    IN <<Camera("image", "image_count"), PatchEmbed("image", "image_count", vision)>>
       \o Layered(Depth, Vision)
       \o <<Gemm(<<"vision_proj", 0>>, <<"o", Depth - 1>>, vision, vl, lead),
            Op("layernorm", <<"vl_ln", 0>>, <<<<"vision_proj", 0>>>>, lead, vl)>>
       \o Layered(Depth, Vl)
       \o <<Given("action_in", Batch, dim)>> \o Layered(steps, Step)

Pi0(vision, vl, dim, horizon, steps) ==
    LET lead == Tokens("batch")
        Vl(l) == VlLayer(l, VlLast(l), lead, vl)
        Step(s) == Flow(s, <<"fusion", 0>>, 1024, 1024, dim * horizon)
    IN <<Camera("images", "batch"), PatchEmbed("images", "batch", vision),
         Op("layernorm", <<"vit_ln", 0>>, <<<<"patch_embed", 0>>>>, lead, vision),
         Gemm(<<"vision_proj", 0>>, <<"vit_ln", 0>>, vision, vl, lead),
         Op("layernorm", <<"vl_ln", 0>>, <<<<"vision_proj", 0>>>>, lead, vl)>>
       \o Layered(4, Vl)
       \o <<Op("global_avg_pool", <<"visual_pool", 0>>, <<<<"vl_proj", 3>>>>, Batch, vl),
            Given("proprioception", Batch, dim),
            Op("concat", <<"fuse_concat", 0>>, <<<<"visual_pool", 0>>, <<"proprioception", 0>>>>,
               Batch, vl + dim),
            Gemm(<<"fusion", 0>>, <<"fuse_concat", 0>>, vl + dim, 1024, Batch)>>
       \o Layered(steps, Step)

OpenVla(variant, vision, vl, dim, horizon, steps) ==
    LET lead == Tokens("image_count")
        Prev(l) == IF l = 0 THEN <<"vision_proj", 0>> ELSE <<"vl_proj", l - 1>>
        Vl(l) == <<Op("layernorm", <<"vl_ln", l>>, <<Prev(l)>>, lead, vl)>>
                 \o VlLayer(l, <<"vl_ln", l>>, lead, vl)
        head == IF variant = "baseline" THEN 512 ELSE 1024
        compressed == <<Gemm(<<"token_compress", 0>>, Prev(2), vl, 256, lead),
                        Op("global_avg_pool", <<"fast_pool", 0>>, <<<<"token_compress", 0>>>>, Batch, 256)>>
        first == IF variant = "fast" THEN <<"fast_pool", 0>> ELSE <<"visual_pool", 0>>
        Step(s) == Flow(s, first, head, head, dim * horizon)
    IN <<Camera("image", "image_count"), PatchEmbed("image", "image_count", vision),
         Gemm(<<"vision_proj", 0>>, <<"patch_embed", 0>>, vision, vl, lead)>>
       \o Layered(2, Vl)
       \o <<Op("global_avg_pool", <<"visual_pool", 0>>, <<Prev(2)>>, Batch, vl)>>
       \o (IF variant = "fast" THEN compressed ELSE <<>>)
       \o Layered(steps, Step)

Helix(s2, s1, s0) ==
    LET lead == Tokens("image_count")
        At(name) == <<"s2_" \o name, 0>>
    IN <<Camera("image", "image_count"), PatchEmbed("image", "image_count", s2),
         Op("layernorm", At("ln"), <<<<"patch_embed", 0>>>>, lead, s2)>>
       \o Ffn("s2_", 0, At("ln"), lead, s2)
       \o <<Op("global_avg_pool", At("pool"), <<At("proj")>>, Batch, s2),
            Given("s1_input", Batch, s1),
            Op("add", <<"s1_fuse", 0>>, <<<<"s1_input", 0>>, At("pool")>>, Batch, s1),
            Gemm(<<"s1_fc1", 0>>, <<"s1_fuse", 0>>, s1, s1 * 2, Batch),
            Op("gelu", <<"s1_gelu", 0>>, <<<<"s1_fc1", 0>>>>, Batch, s1 * 2),
            Gemm(<<"s1_fc2", 0>>, <<"s1_gelu", 0>>, s1 * 2, s1, Batch),
            Given("s0_input", Batch, s0),
            Gemm(<<"s0_fc", 0>>, <<"s0_input", 0>>, s0, s0, Batch),
            Op("concat", <<"action_concat", 0>>, <<<<"s1_fc2", 0>>, <<"s0_fc", 0>>>>, Batch, s1 + s0),
            Gemm(<<"action_head", 0>>, <<"action_concat", 0>>, s1 + s0, 64, Batch)>>

MultiJob ==
    LET images == <<{"image_count"}, 224>>
        Job(name, c, k) ==
            <<Given(name \o "_input", images, c),
              Conv(name \o "_conv", 0, <<name \o "_input", 0>>, c, k, 224),
              Op("global_avg_pool", <<name \o "_pool", 0>>, <<<<name \o "_conv", 0>>>>,
                 <<{"image_count"}, 1>>, k)>>
    IN Job("critical_perception", 3, 16) \o Job("localization_fusion", 2, 8)
       \o Job("inspection_auxiliary", 1, 4)
       \o <<Op("concat", <<"fusion", 0>>,
               <<<<"critical_perception_pool", 0>>, <<"localization_fusion_pool", 0>>,
                 <<"inspection_auxiliary_pool", 0>>>>, <<{"inflight_jobs"}, 1>>, 28)>>
=============================================================================
