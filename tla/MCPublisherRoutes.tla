-------------------------- MODULE MCPublisherRoutes ---------------------------
(* Every platform, every optional publisher on, and a plugin between the two *)
(* built-in publishers of one of them.                                       *)
EXTENDS PublisherRoutes

MCPlatforms == {"zhihu", "xhs", "wechat_mp", "youtube", "toutiao", "baijiahao",
                "sohuhao", "douyin"}
MCEnabled   == Optional
MCPlugins   == {"acme_zhihu"}
MCHome      == [a \in MCPlugins |-> "zhihu"]
MCPriority  == [a \in MCPlugins |-> 7]
=============================================================================
