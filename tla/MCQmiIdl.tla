------------------------------- MODULE MCQmiIdl -------------------------------
(* Tables of the repository's services with smaller maxima, for TLC. *)
EXTENDS QmiIdl

\* Elements.
One(name, type, w) ==
  [name |-> name, type |-> type, w |-> w, array |-> "one", max |-> 1, sz |-> 1,
   part |-> "all", unsigned |-> FALSE, sub |-> <<>>]
Aggregate(name, sub) == [One(name, "aggregate", 1) EXCEPT !.sub = sub]
Array(e, max, sz) == [e EXCEPT !.array = "var", !.max = max, !.sz = sz]
Fixed(e, max) == [e EXCEPT !.array = "fixed", !.max = max]
String(name, max) == Array(One(name, "string", 1), max, 1)
Must(t, e) == [t |-> t, opt |-> FALSE, e |-> e]
May(t, e)  == [t |-> t, opt |-> TRUE, e |-> e]

Resp == Must(2, Aggregate("resp", <<One("result", "enum", 2), One("error", "enum", 2)>>))
Ok   == [result |-> 0, error |-> 0]
DevId == <<String("mitigation_dev_id", 2)>>
Pa   == [mitigation_dev_id |-> <<<<112>>, <<97>>>>]
NoId == [mitigation_dev_id |-> <<>>]

MCTable == [
  \* thermal_mitigation_device_service_v01.c
  set_level |-> <<Must(1, Aggregate("dev", DevId)), Must(2, One("level", "generic", 1))>>,
  dev_list |-> <<Resp, May(16, Array(Aggregate("list",
                  <<Aggregate("id", DevId), One("max_level", "generic", 1)>>), 2, 1))>>,
  dev_list2 |-> <<Resp, May(16, Array(Aggregate("list",
                  <<Aggregate("id", DevId), One("max_level", "generic", 1)>>), 2, 1)),
                  May(17, One("mode", "enum", 1))>>,
  \* wireless_messaging_service_v01.c
  messages |-> <<Must(1, Array(Aggregate("tuple",
                  <<One("index", "generic", 2), [One("tag", "enum", 1) EXCEPT !.unsigned = TRUE]>>), 2, 4)), Resp>>,
  \* device_management_service_v01.c
  roaming |-> <<Resp, May(16, Aggregate("prl_info",
                 <<One("prl_total_len", "generic", 2),
                   [Array(One("prl", "generic", 1), 2, 2) EXCEPT !.part = "length"],
                   One("prl_seg_num", "generic", 1),
                   [Array(One("prl", "generic", 1), 2, 2) EXCEPT !.part = "data"]>>)),
                May(17, Fixed(One("code", "generic", 1), 2))>>,
  \* ip_multimedia_subsystem_settings_v01.c
  settings |-> <<Resp, May(18, String("uri", 2)), May(19, Array(One("display", "utf16", 2), 2, 1))>>,
  \* control_service_v01.c
  pwr_save |-> <<Must(1, One("state", "generic", 1)),
                 May(17, [Array(One("set", "generic", 2), 2, 1) EXCEPT !.part = "lengthless"])>>,
  \* responses of many services
  resp_only |-> <<Resp>>,
  empty |-> <<>>
]

Dev(l) == [id |-> Pa, max_level |-> <<l>>]
MCStructs == [
  set_level |-> [dev : {Pa, NoId}, level : {<<0>>, <<7>>}],
  dev_list |-> {[resp |-> Ok], [resp |-> Ok, list |-> <<>>],
                [resp |-> Ok, list |-> <<Dev(1), [id |-> NoId, max_level |-> <<2>>]>>],
                [resp |-> Ok, list |-> <<Dev(1), Dev(1), Dev(1)>>]},
  dev_list2 |-> {[resp |-> Ok, mode |-> -1], [resp |-> Ok, list |-> <<Dev(3)>>, mode |-> 1]},
  messages |-> {[resp |-> Ok, tuple |-> <<>>],
                [resp |-> [result |-> 1, error |-> 3], tuple |-> <<[index |-> <<1, 2>>, tag |-> 200]>>]},
  roaming |-> {[resp |-> Ok, code |-> <<<<1>>, <<2>>>>],
               [resp |-> Ok, prl_info |-> [prl_total_len |-> <<2, 0>>, prl |-> <<<<5>>, <<6>>>>, prl_seg_num |-> <<1>>]]},
  settings |-> {[resp |-> Ok], [resp |-> Ok, uri |-> <<<<97>>>>],
                [resp |-> Ok, uri |-> <<>>, display |-> <<<<97, 0>>, <<0, 1>>>>],
                [resp |-> Ok, uri |-> <<>>, display |-> <<>>]},
  pwr_save |-> {[state |-> <<1>>], [state |-> <<1>>, set |-> <<>>], [state |-> <<1>>, set |-> <<<<1, 0>>, <<2, 0>>>>]},
  resp_only |-> {[resp |-> Ok], [resp |-> [result |-> 1, error |-> 3]]},
  empty |-> {<<>>}
]

MCResponses == {"dev_list", "dev_list2", "messages", "roaming", "settings", "resp_only"}
\* Each version with itself, and with an older and a newer one.
MCLinks == {<<v, v>> : v \in DOMAIN MCTable}
             \cup {<<"dev_list", "dev_list2">>, <<"dev_list2", "dev_list">>,
                   <<"empty", "pwr_save">>, <<"pwr_save", "empty">>, <<"resp_only", "messages">>, <<"messages", "resp_only">>}
=============================================================================
