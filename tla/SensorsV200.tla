---------------------------- MODULE SensorsV200 -----------------------------
(***************************************************************************)
(* The sensors of hi3518v200 (himpp-video-sensor.cpp).                     *)
(***************************************************************************)
EXTENDS Sensors

Sensor(name, window, device, rate) == OnDevice("hi3518v200", name, window, device, rate)

mt9m034 == Sensor("mt9m034", Rect(0, 0, 1280, 720),
    Rect(0, 0, 1280, 720), 30)

ar0130 == Sensor("ar0130", Rect(0, 0, 1280, 720),
    Rect(0, 0, 1280, 720), 30)

ar0230 == Sensor("ar0230", Rect(0, 0, 1920, 1080),
    Rect(0, 0, 1920, 1080), 30)

ov2718 == Sensor("ov2718", Rect(0, 0, 1920, 1080),
    Rect(0, 0, 1920, 1080), 25)

ov9712 == Sensor("ov9712", Rect(0, 0, 1280, 720),
    Rect(0, 0, 1280, 720), 30)

ov9732 == Sensor("ov9732", Rect(0, 0, 1280, 720),
    Rect(0, 0, 1280, 720), 30)

ov9750 == Sensor("ov9750", Rect(0, 0, 1280, 720),
    Rect(0, 0, 1280, 720), 30)

ov9752 == Sensor("ov9752", Rect(0, 0, 1280, 720),
    Rect(0, 0, 1280, 720), 30)

mn34222 == Sensor("mn34222", Rect(0, 0, 1920, 1080),
    Rect(0, 0, 1920, 1080), 30)

sc1135 == Sensor("sc1135", Rect(0, 0, 1280, 960),
    Rect(0, 0, 1280, 960), 30)

sc1145 == Sensor("sc1145", Rect(0, 0, 1280, 720),
    Rect(0, 0, 1280, 720), 30)

sc1235 == Sensor("sc1235", Rect(0, 0, 1280, 960),
    Rect(0, 0, 1280, 960), 30)

sc2135 == Sensor("sc2135", Rect(0, 0, 1920, 1080),
    Rect(0, 0, 1920, 1080), 30)

sc2235 == Sensor("sc2235", Rect(0, 0, 1920, 1080),
    Rect(0, 0, 1920, 1080), 25)

imx222 == Sensor("imx222", Rect(200, 20, 1920, 1080),
    Rect(200, 20, 1920, 1080), 30)

\* himpp_video_sensor_map
SensorMap ==
    {mt9m034, ar0130, ar0230, ov2718, ov9712, ov9732, ov9750, ov9752,
     mn34222, sc1135, sc1145, sc1235, sc2135, sc2235, imx222}
=============================================================================
