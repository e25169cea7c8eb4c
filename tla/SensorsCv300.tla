---------------------------- MODULE SensorsCv300 ----------------------------
(***************************************************************************)
(* The sensors of hi3516cv300 (himpp-video-sensor.cpp).                    *)
(***************************************************************************)
EXTENDS Sensors

Sensor(name, window, device, rate) == OnDevice("hi3516cv300", name, window, device, rate)

ar0237 == Sensor("ar0237", Rect(0, 0, 1920, 1080),
    Rect(0, 0, 1920, 1080), 30)

ov2718 == Sensor("ov2718", Rect(0, 0, 1920, 1080),
    Rect(0, 0, 1920, 1080), 30)

imx290 == Sensor("imx290", Rect(200, 20, 1920, 1080),
    Rect(0, 0, 1920, 1080), 30)

imx323 == Sensor("imx323", Rect(0, 0, 1920, 1080),
    Rect(200, 20, 1920, 1080), 30)

sc4236 == Sensor("sc4236", Rect(0, 0, 1536, 1536),
    Rect(0, 0, 1536, 1536), 15)

\* himpp_video_sensor_map
SensorMap ==
    {ar0237, ov2718, imx290, imx323, sc4236}
=============================================================================
