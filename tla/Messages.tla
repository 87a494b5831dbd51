------------------------------ MODULE Messages ------------------------------
(***************************************************************************)
(* The messages of the protocol headers (include/protocol).  A message     *)
(* belongs to a service (svid) and has a uri there; its fields follow      *)
(* without a tag.  Every class has a writer (marshall) and a reader        *)
(* (unmarshall) of its own, each of which lists the fields by hand, and    *)
(* both lists are given.  The classes are those whose content is followed  *)
(* through the processes by Wire.                                          *)
(***************************************************************************)
EXTENDS Packet

Class(name, svid, uri, writes, reads) ==
    [name |-> name, svid |-> svid, uri |-> uri, writes |-> writes, reads |-> reads]

-----------------------------------------------------------------------------
(* protocol/pmcenter.h: mcenter and mcproxy *)
PMCReportReq == Class("PMCReportReq", 5, 1,
    <<Str("name"), Str("ip"), Int16("port"), Int32("isp"), Int32("area"),
      Int32("load"), Int32("load_max"), Str("access_url")>>,
    <<Str("name"), Str("ip"), Int16("port"), Int32("isp"), Int32("area"),
      Int32("load"), Int32("load_max"), Str("access_url")>>)
PMCAllocReq == Class("PMCAllocReq", 5, 100,
    <<Int32("isp1"), Int32("area1"), Int32("isp2"), Int32("area2")>>,
    <<Int32("isp1"), Int32("area1"), Int32("isp2"), Int32("area2")>>)
PMCAllocRes == Class("PMCAllocRes", 5, 101,
    <<Int16("res"), Str("ip"), Int16("port"), Int32("isp1"), Int32("area1"),
      Int32("isp2"), Int32("area2")>>,
    <<Int16("res"), Str("ip"), Int16("port"), Int32("isp1"), Int32("area1"),
      Int32("isp2"), Int32("area2")>>)
PMCPreAllocReq == Class("PMCPreAllocReq", 5, 200,
    <<Int32("isp1"), Int32("area1"), Int32("isp2"), Int32("area2"),
      Int32("num")>>,
    <<Int32("isp1"), Int32("area1"), Int32("isp2"), Int32("area2"),
      Int32("num")>>)
\* Mutant: the reader expects the address before the number.
PMCPreAllocRes_Moved == Class("PMCPreAllocRes", 5, 201,
    <<Int16("res"), Int32("isp1"), Int32("area1"), Int32("isp2"),
      Int32("area2"), Int32("num"), Str("ip"), Int16("port")>>,
    <<Int16("res"), Int32("isp1"), Int32("area1"), Int32("isp2"),
      Int32("area2"), Str("ip"), Int16("port"), Int32("num")>>)

PMCPreAllocRes == Class("PMCPreAllocRes", 5, 201,
    <<Int16("res"), Int32("isp1"), Int32("area1"), Int32("isp2"),
      Int32("area2"), Int32("num"), Str("ip"), Int16("port")>>,
    <<Int16("res"), Int32("isp1"), Int32("area1"), Int32("isp2"),
      Int32("area2"), Int32("num"), Str("ip"), Int16("port")>>)

-----------------------------------------------------------------------------
(* protocol/pmgroup.h: mgroup *)
PMGReportReq == Class("PMGReportReq", 4, 100,
    <<Str("name"), Str("ip"), Int16("port"), Int16("udp"), Int32("load"),
      Int32("load_max")>>,
    <<Str("name"), Str("ip"), Int16("port"), Int16("udp"), Int32("load"),
      Int32("load_max")>>)
PMGAllocReq == Class("PMGAllocReq", 4, 102,
    <<Int32("uid"), Str("stream")>>,
    <<Int32("uid"), Str("stream")>>)
PMGAllocRes == Class("PMGAllocRes", 4, 103,
    <<Int32("res"), Int32("uid"), Str("stream"), Str("cookie"), Str("name"),
      Str("ip"), Int16("port"), Int16("udp"), Int32("load"),
      Int32("load_max")>>,
    <<Int32("res"), Int32("uid"), Str("stream"), Str("cookie"), Str("name"),
      Str("ip"), Int16("port"), Int16("udp"), Int32("load"),
      Int32("load_max")>>)

-----------------------------------------------------------------------------
(* protocol/ploadtable.h: loadtable *)
PLTReport == Class("PLTReport", 8, 1,
    <<Str("key"), Str("ip"), Int16("port"), Int32("load"), Int32("load_max"),
      Str("ext")>>,
    <<Str("key"), Str("ip"), Int16("port"), Int32("load"), Int32("load_max"),
      Str("ext")>>)
PLTRegSlaveReq == Class("PLTRegSlaveReq", 8, 6,
    <<Str("name")>>,
    <<Str("name")>>)

-----------------------------------------------------------------------------
(* protocol/pmproxy.h: mproxy *)
PMPCreateReq == Class("PMPCreateReq", 2, 1,
    <<Int32("uid"), Str("nick"), Str("stream")>>,
    <<Int32("uid"), Str("nick"), Str("stream")>>)
PMPCreateRes == Class("PMPCreateRes", 2, 2,
    <<Int32("res"), Int32("sid"), Int32("uid"), Str("nick"), Str("stream")>>,
    <<Int32("res"), Int32("sid"), Int32("uid"), Str("nick"), Str("stream")>>)
PMPJoinReq == Class("PMPJoinReq", 2, 5,
    <<Int32("sid"), Int32("uid"), Str("nick"), Str("stream")>>,
    <<Int32("sid"), Int32("uid"), Str("nick"), Str("stream")>>)
PMPJoinRes == Class("PMPJoinRes", 2, 6,
    <<Int32("res"), Int32("sid"), Int32("uid"), Users("onlineUsers")>>,
    <<Int32("res"), Int32("sid"), Int32("uid"), Users("onlineUsers")>>)
PMPPing == Class("PMPPing", 2, 10,
    <<Int32("sid"), Int32("from")>>,
    <<Int32("sid"), Int32("from")>>)
PMPPong == Class("PMPPong", 2, 11,
    <<Int32("sid"), Int32("from"), Users("users")>>,
    <<Int32("sid"), Int32("from"), Users("users")>>)
\* The reader leaves the payload in the buffer.
PMPStreamData == Class("PMPStreamData", 2, 100,
    <<Int32("sid"), Int32("from"), Int32("seq"), Str("payload")>>,
    <<Int32("sid"), Int32("from"), Int32("seq")>>)
PMPNotifyJoined == Class("PMPNotifyJoined", 2, 1100,
    <<Int32("sid"), Int32("uid"), Str("nickname")>>,
    <<Int32("sid"), Int32("uid"), Str("nickname")>>)
PMPRejectInvite == Class("PMPRejectInvite", 2, 1101,
    <<Int32("sid"), Int32("uid"), Str("nickname")>>,
    <<Int32("sid"), Int32("uid"), Str("nickname")>>)

-----------------------------------------------------------------------------
(* protocol/plogin.h: login and dispatcher; of PLoginReq the writer, and of
   PLoginRes the reader, is that of the Android client *)
PLoginReq == Class("PLoginReq", 10, 1,
    <<Int32("uid"), Str("passport"), Str("password")>>,
    <<Int32("uid"), Str("passport"), Str("password")>>)
PLoginRes == Class("PLoginRes", 10, 2,
    <<Int32("res"), Int32("uid"), Str("cookie")>>,
    <<Int32("res"), Int32("uid"), Str("cookie")>>)
PSendReq == Class("PSendReq", 10, 3,
    <<Int32("uid"), Int32("peer"), Int32("seq"), Int32("last_seq"),
      Str("data")>>,
    <<Int32("uid"), Int32("peer"), Int32("seq"), Int32("last_seq"),
      Str("data")>>)
PSyncUidsReq == Class("PSyncUidsReq", 10, 5,
    <<Ints("adds"), Ints("removes")>>,
    <<Ints("adds"), Ints("removes")>>)
PRegProxyReq == Class("PRegProxyReq", 10, 100,
    <<Str("proxy")>>,
    <<Str("proxy")>>)
PRegProxyRes == Class("PRegProxyRes", 10, 101,
    <<Str("proxy"), Str("dispatcher"), Str("router")>>,
    <<Str("proxy"), Str("dispatcher"), Str("router")>>)

-----------------------------------------------------------------------------
(* protocol/ppush.h: push *)
PConsumerRegisterReq == Class("PConsumerRegisterReq", 1, 3,
    <<Str("name"), Str("topic")>>,
    <<Str("name"), Str("topic")>>)
PPushMsg == Class("PPushMsg", 1, 5,
    <<Str("topic"), Str("payload")>>,
    <<Str("topic"), Str("payload")>>)

-----------------------------------------------------------------------------
Classes ==
    {PMCReportReq, PMCAllocReq, PMCAllocRes, PMCPreAllocReq, PMCPreAllocRes,
     PMGReportReq, PMGAllocReq, PMGAllocRes, PLTReport, PLTRegSlaveReq,
     PMPCreateReq, PMPCreateRes, PMPJoinReq, PMPJoinRes, PMPPing, PMPPong,
     PMPStreamData, PMPNotifyJoined, PMPRejectInvite, PLoginReq, PLoginRes,
     PSendReq, PSyncUidsReq, PRegProxyReq, PRegProxyRes, PConsumerRegisterReq,
     PPushMsg}
=============================================================================
